---- MODULE Spec2Model ----
(***************************************************************************)
(* Model of the fb command-line client: the ticket checkout lifecycle       *)
(* (internal/commands/checkout.go, internal/state), the bin-name resolver   *)
(* (internal/service) and the paginated bins fetcher (api/client.go).       *)
(*                                                                          *)
(* Strings that the code inspects character by character (bin names, bin    *)
(* IDs, page tokens) are sequences of one-character strings; the empty Go   *)
(* string "" is the empty sequence.                                         *)
(***************************************************************************)
EXTENDS Integers, Sequences, FiniteSets, TLC

VARIABLES
    checkoutFile,    \* contents of ~/.fb/checkout.json
    binContextFile,  \* contents of ~/.fb/bin_context.json
    pc,              \* "idle": no fb process; "called": a process has started
    inv,             \* the running invocation: os.Args and what its environment will answer
    res,             \* what the last finished invocation returned and did
    fetchSrv,        \* the bins endpoint a Client.GetBins call talks to
    fetchOut,        \* the outcome of that call
    resolveOut,      \* the last service.ResolveBinFilter call and what it returned
    log,             \* the invocations of one terminal session and their results, in order
    procs,           \* the fb processes that run at the same time, each with its position
    listing          \* the lines the list command printed last

vars == <<checkoutFile, binContextFile, pc, inv, res, fetchSrv, fetchOut, resolveOut,
          log, procs, listing>>
stateVars == <<checkoutFile, binContextFile, pc, inv, res>>
fetchVars == <<fetchSrv, fetchOut, resolveOut>>
auxVars == <<log, procs, listing>>

----------------------------------------------------------------------------
(* Bounds of the model *)

MaxToken == 2        \* distinct page tokens the bins endpoint may hand out
MaxPageLen == 1      \* longest page of bins in the fetcher specification
MaxRequests == 4     \* requests followed before the model stops watching a fetch
MaxTickets == 2      \* longest ticket list the search endpoint returns
MaxClock == 1        \* latest clock reading (seconds) an invocation may see

----------------------------------------------------------------------------
(* Strings *)

EmptyString == <<>>

Str2(a, b) == <<a, b>>

Str3(a, b, c) == <<a, b, c>>

LowerOf == [A |-> "a", B |-> "b", D |-> "d", I |-> "i", N |-> "n", O |-> "o", P |-> "p", X |-> "x"]

Letters == {"a", "b", "d", "i", "n", "o", "p", "x", "A", "B", "D", "I", "N", "O", "P", "X"}

Digits == {"0", "1", "2", "3", "4", "5", "6", "7", "8", "9"}

\* unicode.IsLetter
IsLetter(c) == c \in Letters

\* unicode.IsDigit
IsDigit(c) == c \in Digits

\* strings.ToLower, one character
ToLowerChar(c) == IF c \in DOMAIN LowerOf THEN LowerOf[c] ELSE c

\* strings.ToLower
ToLower(s) == [i \in 1..Len(s) |-> ToLowerChar(s[i])]

----------------------------------------------------------------------------
(* models.Bin, models.Ticket and the remote's answers *)

Bin(id, name) == [ID |-> id, Name |-> name]

BinDo == Bin(Str2("b", "1"), Str2("D", "o"))

BinIP == Bin(Str2("b", "2"), Str3("I", " ", "P"))

BinIPdup == Bin(Str2("b", "3"), Str3("i", " ", "p"))

Ticket(id, name, binID, binName) == [ID |-> id, Name |-> name, BinID |-> binID, BinName |-> binName]

TicketA == Ticket("T1", "Fix login", BinDo.ID, BinDo.Name)

TicketB == Ticket("T2", "Write docs", BinIP.ID, BinIP.Name)

NoToken == EmptyString

Tokens == {<<"t", i>> : i \in 1..MaxToken}

\* The body of an HTTP response, as encoding/json sees it:
\*   {"results": [...], "page-token": "..."}   kind "object"
\*   [...]                                      kind "array"
\*   anything else                              kind "invalid"
\* An absent or null "results" is hasResults = FALSE; an absent "page-token"
\* and "page-token": "" both decode to the empty string.
ObjectBody(hasResults, results, token) ==
    [kind |-> "object", hasResults |-> hasResults, items |-> results, token |-> token]

ArrayBody(items) ==
    [kind |-> "array", hasResults |-> FALSE, items |-> items, token |-> NoToken]

InvalidBody ==
    [kind |-> "invalid", hasResults |-> FALSE, items |-> <<>>, token |-> NoToken]

HttpOK(body) == [ok |-> TRUE, body |-> body]

\* a transport failure or a non-2xx status (doRequest returns an error)
HttpFail == [ok |-> FALSE, body |-> InvalidBody]

----------------------------------------------------------------------------
(* api/client.go: the paginated bins fetcher *)

\* buildPaginatedPath with the page token dropped from the path
buildPaginatedPath_NoToken(basePath, pageToken) ==
    [path |-> basePath, maxResults |-> 1000, hasToken |-> FALSE, token |-> EmptyString]

\* buildPaginatedPath: the page-token parameter is present only when the
\* token is not empty
buildPaginatedPath(basePath, pageToken) ==
    [path |-> basePath, maxResults |-> 1000,
     hasToken |-> pageToken # EmptyString, token |-> pageToken]

\* what the endpoint reads back from a request path
RequestToken(path) == IF path.hasToken THEN path.token ELSE NoToken

\* Client.doRequest against an endpoint srv: a function from the page token
\* of the request to the response
doRequest(srv, path) == srv[RequestToken(path)]

\* parseBinsPage without the fallback to the bare array
parseBinsPage_NoFallback(data) ==
    IF data.kind = "object" /\ data.hasResults
    THEN [bins |-> data.items, nextToken |-> data.token, err |-> ""]
    ELSE [bins |-> <<>>, nextToken |-> NoToken, err |-> "failed to parse bins response"]

\* parseBinsPage without the Results != nil test: any object is a page
parseBinsPage_NoNilCheck(data) ==
    IF data.kind = "object"
    THEN [bins |-> data.items, nextToken |-> data.token, err |-> ""]
    ELSE IF data.kind = "array"
         THEN [bins |-> data.items, nextToken |-> NoToken, err |-> ""]
         ELSE [bins |-> <<>>, nextToken |-> NoToken, err |-> "failed to parse bins response"]

\* parseBinsPage: the paginated shape first, then the bare array
parseBinsPage(data) ==
    IF data.kind = "object" /\ data.hasResults
    THEN [bins |-> data.items, nextToken |-> data.token, err |-> ""]
    ELSE IF data.kind = "array"
         THEN [bins |-> data.items, nextToken |-> NoToken, err |-> ""]
         ELSE [bins |-> <<>>, nextToken |-> NoToken, err |-> "failed to parse bins response"]

\* the for loop of Client.GetBins; sent is the list of request paths issued.
\* status "running" is a loop that has not returned after MaxRequests requests.
RECURSIVE GetBinsLoop(_, _, _, _, _)
GetBinsLoop(srv, pageToken, allBins, sent, fuel) ==
    IF fuel = 0
    THEN [status |-> "running", err |-> "", bins |-> allBins, sent |-> sent]
    ELSE LET path == buildPaginatedPath("/bins", pageToken)
             resp == doRequest(srv, path)
             sent2 == Append(sent, path)
         IN IF ~resp.ok
            THEN [status |-> "error", err |-> "failed to get bins", bins |-> <<>>, sent |-> sent2]
            ELSE LET page == parseBinsPage(resp.body)
                 IN IF page.err # ""
                    THEN [status |-> "error", err |-> page.err, bins |-> <<>>, sent |-> sent2]
                    ELSE IF page.nextToken = EmptyString
                         THEN [status |-> "ok", err |-> "", bins |-> allBins \o page.bins, sent |-> sent2]
                         ELSE GetBinsLoop(srv, page.nextToken, allBins \o page.bins, sent2, fuel - 1)

\* a fetch loop that hands back the pages gathered so far when a page fails
RECURSIVE GetBinsLoop_KeepPartial(_, _, _, _, _)
GetBinsLoop_KeepPartial(srv, pageToken, allBins, sent, fuel) ==
    IF fuel = 0
    THEN [status |-> "running", err |-> "", bins |-> allBins, sent |-> sent]
    ELSE LET path == buildPaginatedPath("/bins", pageToken)
             resp == doRequest(srv, path)
             sent2 == Append(sent, path)
         IN IF ~resp.ok
            THEN [status |-> "error", err |-> "failed to get bins", bins |-> allBins, sent |-> sent2]
            ELSE LET page == parseBinsPage(resp.body)
                 IN IF page.err # ""
                    THEN [status |-> "error", err |-> page.err, bins |-> allBins, sent |-> sent2]
                    ELSE IF page.nextToken = EmptyString
                         THEN [status |-> "ok", err |-> "", bins |-> allBins \o page.bins, sent |-> sent2]
                         ELSE GetBinsLoop_KeepPartial(srv, page.nextToken, allBins \o page.bins, sent2, fuel - 1)

GetBins_KeepPartial(srv) == GetBinsLoop_KeepPartial(srv, EmptyString, <<>>, <<>>, MaxRequests)

\* Client.GetBins
GetBins(srv) == GetBinsLoop(srv, EmptyString, <<>>, <<>>, MaxRequests)

\* a lookup that keeps scanning and returns the last match
LookupBinIDByName_LastMatch(srv, binName) ==
    LET got == GetBins(srv)
        lowerBinName == ToLower(binName)
        hits == {i \in 1..Len(got.bins) : ToLower(got.bins[i].Name) = lowerBinName}
    IN IF got.status # "ok"
       THEN [id |-> EmptyString, err |-> got.err, status |-> got.status]
       ELSE IF hits = {}
            THEN [id |-> EmptyString, err |-> "bin not found", status |-> "ok"]
            ELSE [id |-> got.bins[CHOOSE i \in hits : \A j \in hits : i >= j].ID,
                  err |-> "", status |-> "ok"]

\* a lookup that compares the names as written
LookupBinIDByName_CaseSensitive(srv, binName) ==
    LET got == GetBins(srv)
        hits == {i \in 1..Len(got.bins) : got.bins[i].Name = binName}
    IN IF got.status # "ok"
       THEN [id |-> EmptyString, err |-> got.err, status |-> got.status]
       ELSE IF hits = {}
            THEN [id |-> EmptyString, err |-> "bin not found", status |-> "ok"]
            ELSE [id |-> got.bins[CHOOSE i \in hits : \A j \in hits : i <= j].ID,
                  err |-> "", status |-> "ok"]

\* Client.LookupBinIDByName: first case-insensitive match in fetch order
LookupBinIDByName(srv, binName) ==
    LET got == GetBins(srv)
        lowerBinName == ToLower(binName)
        hits == {i \in 1..Len(got.bins) : ToLower(got.bins[i].Name) = lowerBinName}
    IN IF got.status # "ok"
       THEN [id |-> EmptyString, err |-> got.err, status |-> got.status]
       ELSE IF hits = {}
            THEN [id |-> EmptyString, err |-> "bin not found", status |-> "ok"]
            ELSE [id |-> got.bins[CHOOSE i \in hits : \A j \in hits : i <= j].ID,
                  err |-> "", status |-> "ok"]

\* a classifier that takes only letters for the characters of an ID
IsBinID_LettersOnly(s) == s # EmptyString /\ \A i \in 1..Len(s) : IsLetter(s[i])

\* service.IsBinID
IsBinID(s) == s # EmptyString /\ \A i \in 1..Len(s) : IsLetter(s[i]) \/ IsDigit(s[i])

\* ResolveBinFilter that falls back to the name when the lookup fails
ResolveBinFilter_SwallowError(srv, binFilter) ==
    IF IsBinID(binFilter)
    THEN [id |-> binFilter, err |-> "", called |-> FALSE]
    ELSE LET found == LookupBinIDByName(srv, binFilter)
         IN IF found.err # "" \/ found.status # "ok"
            THEN [id |-> binFilter, err |-> "", called |-> TRUE]
            ELSE [id |-> found.id, err |-> "", called |-> TRUE]

\* service.ResolveBinFilter; called reports whether the bins endpoint was used
ResolveBinFilter(srv, binFilter) ==
    IF IsBinID(binFilter)
    THEN [id |-> binFilter, err |-> "", called |-> FALSE]
    ELSE LET found == LookupBinIDByName(srv, binFilter)
         IN IF found.err # "" \/ found.status # "ok"
            THEN [id |-> EmptyString, err |-> "failed to find bin", called |-> TRUE]
            ELSE [id |-> found.id, err |-> "", called |-> TRUE]

----------------------------------------------------------------------------
(* internal/state: the two persisted files *)

\* a file that does not exist
NoFile == [kind |-> "absent"]

\* a file whose bytes are not the JSON object the loader expects
CorruptFile == [kind |-> "corrupt"]

\* a file that is there and cannot be opened for reading
UnreadableFile == [kind |-> "unreadable"]

\* state.CheckoutState
CheckoutState(ticketID, ticketName, binID, binName, checkedOutAt) ==
    [TicketID |-> ticketID, TicketName |-> ticketName, BinID |-> binID,
     BinName |-> binName, CheckedOutAt |-> checkedOutAt]

\* state.BinContext
BinContext(binID, binName) == [BinID |-> binID, BinName |-> binName]

\* json.MarshalIndent of a CheckoutState: the struct tags name the keys
MarshalCheckout(c) ==
    [kind |-> "json", ticket_id |-> c.TicketID, ticket_name |-> c.TicketName,
     bin_id |-> c.BinID, bin_name |-> c.BinName, checked_out_at |-> c.CheckedOutAt]

\* json.Unmarshal into a CheckoutState
UnmarshalCheckout(f) ==
    CheckoutState(f.ticket_id, f.ticket_name, f.bin_id, f.bin_name, f.checked_out_at)

\* json.MarshalIndent of a BinContext
MarshalBinContext(c) == [kind |-> "json", bin_id |-> c.BinID, bin_name |-> c.BinName]

\* json.Unmarshal into a BinContext
UnmarshalBinContext(f) == BinContext(f.bin_id, f.bin_name)

\* os.WriteFile: "ok" writes the data; "fail_open" fails before the file is
\* touched; "fail_write" fails after the file was truncated
WriteFile(old, data, outcome) ==
    IF outcome = "ok" THEN [file |-> data, err |-> ""]
    ELSE IF outcome = "fail_open" THEN [file |-> old, err |-> "write failed"]
    ELSE [file |-> CorruptFile, err |-> "write failed"]

\* SaveCheckout that patches an existing record and keeps its timestamp
SaveCheckout_KeepTimestamp(old, checkout, outcome) ==
    IF old.kind = "json"
    THEN WriteFile(old, [MarshalCheckout(checkout) EXCEPT !.checked_out_at = old.checked_out_at], outcome)
    ELSE WriteFile(old, MarshalCheckout(checkout), outcome)

\* a save that creates the file and refuses to replace one that is there
SaveCheckout_Exclusive(old, checkout, outcome) ==
    IF old.kind # "absent" THEN [file |-> old, err |-> "write failed"]
    ELSE WriteFile(old, MarshalCheckout(checkout), outcome)

\* state.SaveCheckout
SaveCheckout(old, checkout, outcome) == WriteFile(old, MarshalCheckout(checkout), outcome)

\* a save that keeps a bin context that is already on disk
SaveBinContext_KeepExisting(old, binID, binName, outcome) ==
    IF old.kind = "json"
    THEN WriteFile(old, old, outcome)
    ELSE WriteFile(old, MarshalBinContext(BinContext(binID, binName)), outcome)

\* state.SaveBinContext
SaveBinContext(old, binID, binName, outcome) ==
    WriteFile(old, MarshalBinContext(BinContext(binID, binName)), outcome)

NoCheckout == CheckoutState("", "", EmptyString, EmptyString, [layout |-> "RFC3339", sec |-> 0])

\* a loader that hands back the zero record when the bytes do not parse
LoadCheckout_ZeroOnCorrupt(file) ==
    IF file.kind = "absent" THEN [checkout |-> NoCheckout, err |-> "no checkout file found"]
    ELSE IF file.kind = "unreadable" THEN [checkout |-> NoCheckout, err |-> "failed to read checkout file"]
    ELSE IF file.kind = "corrupt" THEN [checkout |-> NoCheckout, err |-> ""]
    ELSE [checkout |-> UnmarshalCheckout(file), err |-> ""]

\* state.LoadCheckout
LoadCheckout(file) ==
    IF file.kind = "absent" THEN [checkout |-> NoCheckout, err |-> "no checkout file found"]
    ELSE IF file.kind = "unreadable" THEN [checkout |-> NoCheckout, err |-> "failed to read checkout file"]
    ELSE IF file.kind = "corrupt" THEN [checkout |-> NoCheckout, err |-> "failed to parse checkout file"]
    ELSE [checkout |-> UnmarshalCheckout(file), err |-> ""]

\* state.LoadBinContext
LoadBinContext(file) ==
    IF file.kind = "json"
    THEN [context |-> UnmarshalBinContext(file), err |-> ""]
    ELSE [context |-> BinContext(EmptyString, EmptyString), err |-> "cannot load bin context"]

\* ClearCheckout without the os.IsNotExist test
ClearCheckout_StrictRemove(file, outcome) ==
    IF file.kind = "absent" THEN [file |-> NoFile, err |-> "failed to clear checkout"]
    ELSE IF outcome = "ok" THEN [file |-> NoFile, err |-> ""]
    ELSE [file |-> file, err |-> "failed to clear checkout"]

\* state.ClearCheckout: os.Remove, where a missing file is not an error
ClearCheckout(file, outcome) ==
    IF file.kind = "absent" THEN [file |-> NoFile, err |-> ""]
    ELSE IF outcome = "ok" THEN [file |-> NoFile, err |-> ""]
    ELSE [file |-> file, err |-> "failed to clear checkout"]

----------------------------------------------------------------------------
(* Reading the selection from standard input *)

DigitSeq == <<"0", "1", "2", "3", "4", "5", "6", "7", "8", "9">>

DigitVal(c) == (CHOOSE i \in 1..10 : DigitSeq[i] = c) - 1

\* the line taken as typed
TrimSpace_Identity(s) == s

\* strings.TrimSpace
RECURSIVE TrimSpace(_)
TrimSpace(s) ==
    IF s = <<>> THEN s
    ELSE IF Head(s) = " " THEN TrimSpace(Tail(s))
    ELSE IF s[Len(s)] = " " THEN TrimSpace(SubSeq(s, 1, Len(s) - 1))
    ELSE s

RECURSIVE DigitPrefix(_)
DigitPrefix(s) ==
    IF s = <<>> \/ ~IsDigit(Head(s)) THEN <<>>
    ELSE <<Head(s)>> \o DigitPrefix(Tail(s))

RECURSIVE DecimalValue(_)
DecimalValue(ds) ==
    IF ds = <<>> THEN 0
    ELSE 10 * DecimalValue(SubSeq(ds, 1, Len(ds) - 1)) + DigitVal(ds[Len(ds)])

\* fmt.Sscanf(input, "%d", &selection): reads the leading digits and ignores
\* the rest of the line; fails when the line does not start with a digit
Sscanf_d(input) ==
    LET ds == DigitPrefix(input)
    IN IF ds = <<>> THEN [value |-> 0, err |-> "expected integer"]
       ELSE [value |-> DecimalValue(ds), err |-> ""]

\* time.Now().Format(time.RFC3339) for a clock reading in seconds
FormatRFC3339(sec) == [layout |-> "RFC3339", sec |-> sec]

----------------------------------------------------------------------------
(* internal/commands/checkout.go *)

\* What a handler returns and leaves behind: the error ("" is nil), what it
\* printed, the remote calls it made, the comment payloads it sent to the
\* ticket-comments endpoint, and the two files afterwards.
Outcome(err, out, calls, cf, bf) ==
    [err |-> err, out |-> out, calls |-> calls, posted |-> <<>>,
     checkoutFile |-> cf, binContextFile |-> bf]

ErrAlreadyCheckedOut(existing) ==
    [msg |-> "ticket already checked out", ticket |-> existing.TicketName]

ErrPlain(msg) == [msg |-> msg, ticket |-> ""]

NoErr == ErrPlain("")

\* a bin checkout that remembers the bin as soon as the search has answered,
\* candidates or not
ExecuteBinCheckout_ContextFirst(cf, bf, env, binName, force) ==
    LET existing == LoadCheckout(cf)
        resolved == ResolveBinFilter(env.binSrv, binName)
        binID == resolved.id
        resolveCalls == IF resolved.called THEN <<"discover", "user", "bins">> ELSE <<"discover", "user">>
        tickets == env.search.tickets
        input == TrimSpace(env.input)
        scan == Sscanf_d(input)
        selection == scan.value
        selectedTicket == tickets[selection]
        checkout == CheckoutState(selectedTicket.ID, selectedTicket.Name, selectedTicket.BinID,
                                  selectedTicket.BinName, FormatRFC3339(env.now))
        saved == SaveCheckout(cf, checkout, env.saveCheckout)
        savedCtx == SaveBinContext(bf, binID, binName, env.saveBinCtx)
    IN IF ~force /\ existing.err = ""
       THEN Outcome(ErrAlreadyCheckedOut(existing.checkout), "", <<>>, cf, bf)
       ELSE IF ~env.config
       THEN Outcome(ErrPlain("config error"), "", <<>>, cf, bf)
       ELSE IF ~env.discover
       THEN Outcome(ErrPlain("failed to discover API endpoint"), "", <<"discover">>, cf, bf)
       ELSE IF ~env.user
       THEN Outcome(ErrPlain("failed to get user information"), "", <<"discover", "user">>, cf, bf)
       ELSE IF resolved.err # ""
       THEN Outcome(ErrPlain(resolved.err), "", resolveCalls, cf, bf)
       ELSE IF ~env.search.ok
       THEN Outcome(ErrPlain("failed to search tickets"), "", Append(resolveCalls, "search"), cf, bf)
       ELSE IF Len(tickets) = 0
       THEN Outcome(NoErr, "No tickets found in bin", Append(resolveCalls, "search"), cf, savedCtx.file)
       ELSE IF input = EmptyString
       THEN Outcome(ErrPlain("cancelled"), "prompt", Append(resolveCalls, "search"), cf, bf)
       ELSE IF scan.err # "" \/ selection < 1 \/ selection > Len(tickets)
       THEN Outcome(ErrPlain("invalid selection"), "prompt", Append(resolveCalls, "search"), cf, bf)
       ELSE IF saved.err # ""
       THEN Outcome(ErrPlain(saved.err), "prompt", Append(resolveCalls, "search"), saved.file, bf)
       ELSE IF savedCtx.err # ""
       THEN Outcome(ErrPlain(savedCtx.err), "prompt", Append(resolveCalls, "search"), saved.file, savedCtx.file)
       ELSE Outcome(NoErr, "Checked out", Append(resolveCalls, "search"), saved.file, savedCtx.file)

\* ExecuteBinCheckout(binName, force), run on the files cf and bf in the
\* environment env
ExecuteBinCheckout(cf, bf, env, binName, force) ==
    LET existing == LoadCheckout(cf)
        resolved == ResolveBinFilter(env.binSrv, binName)
        binID == resolved.id
        resolveCalls == IF resolved.called THEN <<"discover", "user", "bins">> ELSE <<"discover", "user">>
        tickets == env.search.tickets
        input == TrimSpace(env.input)
        scan == Sscanf_d(input)
        selection == scan.value
        selectedTicket == tickets[selection]
        checkout == CheckoutState(selectedTicket.ID, selectedTicket.Name, selectedTicket.BinID,
                                  selectedTicket.BinName, FormatRFC3339(env.now))
        saved == SaveCheckout(cf, checkout, env.saveCheckout)
        savedCtx == SaveBinContext(bf, binID, binName, env.saveBinCtx)
    IN IF ~force /\ existing.err = ""
       THEN Outcome(ErrAlreadyCheckedOut(existing.checkout), "", <<>>, cf, bf)
       ELSE IF ~env.config
       THEN Outcome(ErrPlain("config error"), "", <<>>, cf, bf)
       ELSE IF ~env.discover
       THEN Outcome(ErrPlain("failed to discover API endpoint"), "", <<"discover">>, cf, bf)
       ELSE IF ~env.user
       THEN Outcome(ErrPlain("failed to get user information"), "", <<"discover", "user">>, cf, bf)
       ELSE IF resolved.err # ""
       THEN Outcome(ErrPlain(resolved.err), "", resolveCalls, cf, bf)
       ELSE IF ~env.search.ok
       THEN Outcome(ErrPlain("failed to search tickets"), "", Append(resolveCalls, "search"), cf, bf)
       ELSE IF Len(tickets) = 0
       THEN Outcome(NoErr, "No tickets found in bin", Append(resolveCalls, "search"), cf, bf)
       ELSE IF input = EmptyString
       THEN Outcome(ErrPlain("cancelled"), "prompt", Append(resolveCalls, "search"), cf, bf)
       ELSE IF scan.err # "" \/ selection < 1 \/ selection > Len(tickets)
       THEN Outcome(ErrPlain("invalid selection"), "prompt", Append(resolveCalls, "search"), cf, bf)
       ELSE IF saved.err # ""
       THEN Outcome(ErrPlain(saved.err), "prompt", Append(resolveCalls, "search"), saved.file, bf)
       ELSE IF savedCtx.err # ""
       THEN Outcome(ErrPlain(savedCtx.err), "prompt", Append(resolveCalls, "search"), saved.file, savedCtx.file)
       ELSE Outcome(NoErr, "Checked out", Append(resolveCalls, "search"), saved.file, savedCtx.file)

\* the search loop with the ID comparison left out: the first ticket is taken
FindTicketByID_AnyTicket(tickets, ticketID) ==
    IF Len(tickets) = 0 THEN 0 ELSE 1

\* the search loop of ExecuteDirectCheckout: the position of the first ticket
\* whose ID equals ticketID, 0 when selectedTicket stays nil
FindTicketByID(tickets, ticketID) ==
    LET hits == {i \in 1..Len(tickets) : tickets[i].ID = ticketID}
    IN IF hits = {} THEN 0 ELSE CHOOSE i \in hits : \A j \in hits : i <= j

\* ExecuteDirectCheckout(ticketID)
ExecuteDirectCheckout(cf, bf, env, ticketID) ==
    LET existing == LoadCheckout(cf)
        tickets == env.search.tickets
        found == FindTicketByID(tickets, ticketID)
        selectedTicket == tickets[found]
        checkout == CheckoutState(selectedTicket.ID, selectedTicket.Name, selectedTicket.BinID,
                                  selectedTicket.BinName, FormatRFC3339(env.now))
        saved == SaveCheckout(cf, checkout, env.saveCheckout)
    IN IF existing.err = ""
       THEN Outcome(ErrAlreadyCheckedOut(existing.checkout), "", <<>>, cf, bf)
       ELSE IF ~env.config
       THEN Outcome(ErrPlain("config error"), "", <<>>, cf, bf)
       ELSE IF ~env.discover
       THEN Outcome(ErrPlain("failed to discover API endpoint"), "", <<"discover">>, cf, bf)
       ELSE IF ~env.user
       THEN Outcome(ErrPlain("failed to get user information"), "", <<"discover", "user">>, cf, bf)
       ELSE IF ~env.search.ok
       THEN Outcome(ErrPlain("failed to search tickets"), "", <<"discover", "user", "search">>, cf, bf)
       ELSE IF found = 0
       THEN Outcome(ErrPlain("ticket not found or not assigned to you"), "",
                    <<"discover", "user", "search">>, cf, bf)
       ELSE IF saved.err # ""
       THEN Outcome(ErrPlain(saved.err), "", <<"discover", "user", "search">>, saved.file, bf)
       ELSE Outcome(NoErr, "Checked out", <<"discover", "user", "search">>, saved.file, bf)

\* ExecuteCheckoutWithLastBin that runs the bin checkout with force set
ExecuteCheckoutWithLastBin_Forced(cf, bf, env) ==
    LET loaded == LoadBinContext(bf)
    IN IF loaded.err # ""
       THEN Outcome(ErrPlain("no bin context found"), "", <<>>, cf, bf)
       ELSE ExecuteBinCheckout(cf, bf, env, loaded.context.BinName, TRUE)

\* ExecuteCheckoutWithLastBin()
ExecuteCheckoutWithLastBin(cf, bf, env) ==
    LET loaded == LoadBinContext(bf)
    IN IF loaded.err # ""
       THEN Outcome(ErrPlain("no bin context found"), "", <<>>, cf, bf)
       ELSE ExecuteBinCheckout(cf, bf, env, loaded.context.BinName, FALSE)

\* ExecuteCheckout(args, binFlag, forceFlag)
ExecuteCheckout(cf, bf, env, args, binFlag, forceFlag) ==
    IF Len(args) > 0
    THEN ExecuteDirectCheckout(cf, bf, env, args[1])
    ELSE IF binFlag # EmptyString
         THEN ExecuteBinCheckout(cf, bf, env, binFlag, forceFlag)
         ELSE ExecuteCheckoutWithLastBin(cf, bf, env)

\* ExecuteClear that reports success without removing the file
ExecuteClear_ReportOnly(cf, bf, env) ==
    Outcome(NoErr, "Checkout cleared", <<>>, cf, bf)

\* ExecuteClear()
ExecuteClear(cf, bf, env) ==
    LET cleared == ClearCheckout(cf, env.remove)
    IN IF cleared.err # ""
       THEN Outcome(ErrPlain(cleared.err), "", <<>>, cleared.file, bf)
       ELSE Outcome(NoErr, "Checkout cleared", <<>>, cleared.file, bf)

----------------------------------------------------------------------------
(* internal/commands: the quick comment, the status and the list commands *)

\* service.BuildCommentPayload
BuildCommentPayload(commentID, ticketID, comment) ==
    [ID |-> commentID, TicketID |-> ticketID, Comment |-> comment]

\* a quick comment that removes the record when the post is refused
ExecuteQuick_ClearOnFailure(cf, bf, env, comment) ==
    LET loaded == LoadCheckout(cf)
        payload == BuildCommentPayload(env.commentID, loaded.checkout.TicketID, comment)
    IN IF loaded.err # ""
       THEN Outcome(ErrPlain("no ticket checked out"), "", <<>>, cf, bf)
       ELSE IF ~env.config
       THEN Outcome(ErrPlain("config error"), "", <<>>, cf, bf)
       ELSE IF ~env.discover
       THEN Outcome(ErrPlain("failed to discover API endpoint"), "", <<"discover">>, cf, bf)
       ELSE IF ~env.postOK
       THEN [Outcome(ErrPlain("failed to post comment"), "", <<"discover", "comment">>, NoFile, bf)
                EXCEPT !.posted = <<payload>>]
       ELSE [Outcome(NoErr, "Comment added", <<"discover", "comment">>, cf, bf)
                EXCEPT !.posted = <<payload>>]

\* a quick comment addressed to the first assigned ticket instead of the record's
ExecuteQuick_FirstTicket(cf, bf, env, comment) ==
    LET loaded == LoadCheckout(cf)
        payload == BuildCommentPayload(env.commentID, TicketA.ID, comment)
    IN IF loaded.err # ""
       THEN Outcome(ErrPlain("no ticket checked out"), "", <<>>, cf, bf)
       ELSE IF ~env.config
       THEN Outcome(ErrPlain("config error"), "", <<>>, cf, bf)
       ELSE IF ~env.discover
       THEN Outcome(ErrPlain("failed to discover API endpoint"), "", <<"discover">>, cf, bf)
       ELSE IF ~env.postOK
       THEN [Outcome(ErrPlain("failed to post comment"), "", <<"discover", "comment">>, cf, bf)
                EXCEPT !.posted = <<payload>>]
       ELSE [Outcome(NoErr, "Comment added", <<"discover", "comment">>, cf, bf)
                EXCEPT !.posted = <<payload>>]

\* ExecuteQuick(comment)
ExecuteQuick(cf, bf, env, comment) ==
    LET loaded == LoadCheckout(cf)
        payload == BuildCommentPayload(env.commentID, loaded.checkout.TicketID, comment)
    IN IF loaded.err # ""
       THEN Outcome(ErrPlain("no ticket checked out"), "", <<>>, cf, bf)
       ELSE IF ~env.config
       THEN Outcome(ErrPlain("config error"), "", <<>>, cf, bf)
       ELSE IF ~env.discover
       THEN Outcome(ErrPlain("failed to discover API endpoint"), "", <<"discover">>, cf, bf)
       ELSE IF ~env.postOK
       THEN [Outcome(ErrPlain("failed to post comment"), "", <<"discover", "comment">>, cf, bf)
                EXCEPT !.posted = <<payload>>]
       ELSE [Outcome(NoErr, "Comment added", <<"discover", "comment">>, cf, bf)
                EXCEPT !.posted = <<payload>>]

\* ExecuteStatus(): prints the record or that there is none; never fails
ExecuteStatus(cf, bf, env) ==
    IF LoadCheckout(cf).err # ""
    THEN Outcome(NoErr, "No ticket currently checked out", <<>>, cf, bf)
    ELSE Outcome(NoErr, "Currently checked out", <<>>, cf, bf)

\* cli.Run's default branch: loadConfiguration, then commands.Execute(cfg,
\* binFilter, verbose), which prints the tickets
Execute(cf, bf, env, binFilter) ==
    LET resolved == IF binFilter # EmptyString
                    THEN ResolveBinFilter(env.binSrv, binFilter)
                    ELSE [id |-> EmptyString, err |-> "", called |-> FALSE]
        lookups == IF resolved.called THEN <<"discover", "user", "bins">> ELSE <<"discover", "user">>
    IN IF ~env.config
       THEN Outcome(ErrPlain("config error"), "", <<>>, cf, bf)
       ELSE IF ~env.discover
       THEN Outcome(ErrPlain("failed to discover API endpoint"), "", <<"discover">>, cf, bf)
       ELSE IF ~env.user
       THEN Outcome(ErrPlain("failed to get user information"), "", <<"discover", "user">>, cf, bf)
       ELSE IF resolved.err # ""
       THEN Outcome(ErrPlain(resolved.err), "", lookups, cf, bf)
       ELSE IF ~env.search.ok
       THEN Outcome(ErrPlain("failed to search tickets"), "", Append(lookups, "search"), cf, bf)
       ELSE Outcome(NoErr, "tickets", Append(lookups, "search"), cf, bf)

----------------------------------------------------------------------------
(* The invocations of the CLI and the environments they run in *)

\* bins endpoints the checkout commands are run against
SrvOnePage ==
    [t \in {NoToken} \cup Tokens |->
        IF t = NoToken THEN HttpOK(ObjectBody(TRUE, <<BinDo, BinIP>>, NoToken)) ELSE HttpFail]

SrvTwoPages ==
    [t \in {NoToken} \cup Tokens |->
        IF t = NoToken THEN HttpOK(ObjectBody(TRUE, <<BinDo>>, <<"t", 1>>))
        ELSE IF t = <<"t", 1>> THEN HttpOK(ObjectBody(TRUE, <<BinIPdup, BinIP>>, NoToken))
        ELSE HttpFail]

SrvDown == [t \in {NoToken} \cup Tokens |-> HttpFail]

CheckoutServers == {SrvOnePage, SrvTwoPages, SrvDown}

\* values of --bin: an ID-like name, a name with a space, a name of no bin
BinFlags == {Str2("D", "o"), Str3("I", " ", "P"), Str3("N", " ", "X")}

\* ticket IDs given on the command line; no search ever returns T9
TicketArgs == {"T1", "T2", "T9"}

\* what the ticket search may return
TicketLists == UNION {[1..n -> {TicketA, TicketB}] : n \in 0..MaxTickets}

\* lines typed at the selection prompt
Inputs ==
    {<<>>, <<" ">>, <<"x">>, <<"1", "x">>} \cup {<<DigitSeq[n + 1]>> : n \in 0..(MaxTickets + 1)}

\* a line at the prompt and the clock reading of the checkout it leads to; the
\* clock is read only after a line that starts with the number of one of the
\* n tickets listed
Selections(n) ==
    {x \in Inputs \X (0..MaxClock) :
        x[2] # 0 => DecimalValue(DigitPrefix(x[1])) \in 1..n}

\* The environment of one invocation: whether the config loads, whether each
\* remote call succeeds and what it returns, the line on standard input, the
\* clock, the tickets that exist remotely but are assigned to somebody else,
\* and how the local file operations end.
Env(config, discover, user, binSrv, searchOK, tickets, input, now, others) ==
    [config |-> config, discover |-> discover, user |-> user, binSrv |-> binSrv,
     search |-> [ok |-> searchOK, tickets |-> tickets], input |-> input, now |-> now,
     others |-> others,
     saveCheckout |-> "ok", saveBinCtx |-> "ok", remove |-> "ok",
     postOK |-> TRUE, commentID |-> "c1"]

DefaultEnv == Env(TRUE, TRUE, TRUE, SrvDown, FALSE, <<>>, <<" ">>, 0, {})

\* environments in which a step before the bins lookup fails; what the later
\* steps would have answered is never asked
EarlyFailEnvs ==
    {Env(FALSE, TRUE, TRUE, SrvDown, FALSE, <<>>, <<" ">>, 0, {}),
     Env(TRUE, FALSE, TRUE, SrvDown, FALSE, <<>>, <<" ">>, 0, {}),
     Env(TRUE, TRUE, FALSE, SrvDown, FALSE, <<>>, <<" ">>, 0, {})}

BinEnvs ==
    EarlyFailEnvs
    \cup {Env(TRUE, TRUE, TRUE, srv, FALSE, <<>>, <<" ">>, 0, {}) : srv \in CheckoutServers}
    \cup UNION {{Env(TRUE, TRUE, TRUE, srv, TRUE, l, x[1], x[2], {}) :
                     srv \in CheckoutServers, x \in Selections(Len(l))} : l \in TicketLists}

DirectEnvs ==
    EarlyFailEnvs
    \cup {Env(TRUE, TRUE, TRUE, SrvDown, FALSE, <<>>, <<" ">>, 0, {})}
    \cup {Env(TRUE, TRUE, TRUE, SrvDown, TRUE, l, <<" ">>, n, o) :
              l \in TicketLists, n \in 0..MaxClock, o \in {{}, {"T9"}}}

\* environments of a quick comment: the config, the discovery, the post and
\* the random comment ID
QuickEnvs ==
    {Env(FALSE, TRUE, TRUE, SrvDown, FALSE, <<>>, <<" ">>, 0, {}),
     Env(TRUE, FALSE, TRUE, SrvDown, FALSE, <<>>, <<" ">>, 0, {})}
    \cup {[DefaultEnv EXCEPT !.postOK = ok, !.commentID = id] :
              ok \in BOOLEAN, id \in {"c1", "c2"}}

\* the comment texts of fb -c "..." and of bare arguments
Comments == {"Started work", "Done"}

\* environments of the list command
ListEnvs ==
    EarlyFailEnvs
    \cup {Env(TRUE, TRUE, TRUE, srv, FALSE, <<>>, <<" ">>, 0, {}) : srv \in CheckoutServers}
    \cup {Env(TRUE, TRUE, TRUE, srv, TRUE, l, <<" ">>, 0, {}) :
              srv \in CheckoutServers, l \in TicketLists}

Invocation(cmd, args, binFlag, forceFlag, env) ==
    [cmd |-> cmd, args |-> args, binFlag |-> binFlag, forceFlag |-> forceFlag, env |-> env]

\* fb checkout [ticket-id] [--bin name] [--force],  fb clear,  fb -c "text",
\* fb -o  and  fb [-b name]
Invocations ==
    {Invocation("checkout", <<id>>, b, f, e) :
         id \in TicketArgs, b \in {EmptyString, Str2("D", "o")}, f \in BOOLEAN, e \in DirectEnvs}
    \cup {Invocation("checkout", <<>>, b, f, e) :
              b \in BinFlags \cup {EmptyString}, f \in BOOLEAN, e \in BinEnvs}
    \cup {Invocation("clear", <<>>, EmptyString, FALSE, DefaultEnv)}
    \cup {Invocation("quick", <<c>>, EmptyString, FALSE, e) : c \in Comments, e \in QuickEnvs}
    \cup {Invocation("status", <<>>, EmptyString, FALSE, DefaultEnv)}
    \cup {Invocation("list", <<>>, b, FALSE, e) : b \in BinFlags \cup {EmptyString}, e \in ListEnvs}

NoInv == Invocation("none", <<>>, EmptyString, FALSE, DefaultEnv)

NoRes ==
    [cmd |-> "none", variant |-> "none", force |-> FALSE, before |-> NoFile,
     beforeCtx |-> NoFile,
     err |-> NoErr, out |-> "", calls |-> <<>>, posted |-> <<>>]

\* which checkout the command line asks for
Variant(i) ==
    IF i.cmd # "checkout" THEN i.cmd
    ELSE IF Len(i.args) > 0 THEN "direct"
    ELSE IF i.binFlag # EmptyString THEN "bin"
    ELSE "lastbin"

----------------------------------------------------------------------------
(* The checkout state machine: one fb process at a time *)

\* no GetBins call has been made
NoFetch == [status |-> "none", err |-> "", bins |-> <<>>, sent |-> <<>>]

\* no ResolveBinFilter call has been made
NoResolve == [status |-> "none"]

\* a fixed endpoint for the specifications that do not study the fetcher
IdleServer == SrvDown

\* nothing ran in the session, no concurrent processes, nothing listed
NoAux ==
    /\ log = <<>>
    /\ procs = <<>>
    /\ listing = <<>>

Init ==
    /\ checkoutFile = NoFile
    /\ binContextFile = NoFile
    /\ pc = "idle"
    /\ inv = NoInv
    /\ res = NoRes
    /\ fetchSrv = IdleServer
    /\ fetchOut = NoFetch
    /\ resolveOut = NoResolve
    /\ NoAux

\* cli.Run: a process starts with its arguments parsed
Invoke ==
    /\ pc = "idle"
    /\ inv' \in Invocations
    /\ pc' = "called"
    /\ res' = NoRes
    /\ UNCHANGED <<checkoutFile, binContextFile, fetchVars, auxVars>>

\* the process ends: the handler's outcome is on disk and on the terminal
Return(r) ==
    /\ checkoutFile' = r.checkoutFile
    /\ binContextFile' = r.binContextFile
    /\ res' = [cmd |-> inv.cmd, variant |-> Variant(inv), force |-> inv.forceFlag,
               before |-> checkoutFile, beforeCtx |-> binContextFile,
               err |-> r.err, out |-> r.out, calls |-> r.calls, posted |-> r.posted]
    /\ pc' = "idle"
    /\ inv' = NoInv
    /\ UNCHANGED <<fetchVars, auxVars>>

\* handleCheckoutSubcommand
Checkout ==
    /\ pc = "called"
    /\ inv.cmd = "checkout"
    /\ Return(ExecuteCheckout(checkoutFile, binContextFile, inv.env,
                              inv.args, inv.binFlag, inv.forceFlag))

\* handleClearSubcommand
Clear ==
    /\ pc = "called"
    /\ inv.cmd = "clear"
    /\ Return(ExecuteClear(checkoutFile, binContextFile, inv.env))

\* cli.Run with -c or bare arguments
Quick ==
    /\ pc = "called"
    /\ inv.cmd = "quick"
    /\ Return(ExecuteQuick(checkoutFile, binContextFile, inv.env, inv.args[1]))

\* cli.Run with -o
Status ==
    /\ pc = "called"
    /\ inv.cmd = "status"
    /\ Return(ExecuteStatus(checkoutFile, binContextFile, inv.env))

\* cli.Run without a subcommand: the list of tickets
List ==
    /\ pc = "called"
    /\ inv.cmd = "list"
    /\ Return(Execute(checkoutFile, binContextFile, inv.env, inv.binFlag))

Next == Invoke \/ Checkout \/ Clear \/ Quick \/ Status \/ List

Spec == Init /\ [][Next]_vars

----------------------------------------------------------------------------
(* Properties of the checkout state machine.  Each is a statement about the *)
(* step in which a handler runs: inv is the invocation, the unprimed files  *)
(* are the files before it, the primed files and res' what it leaves.       *)

\* a checkout record is on disk
RecordExists(file) == file.kind = "json"

IsConflict(err) == err.msg = "ticket already checked out"

\* the command line of a checkout that is not forced: --bin without --force,
\* a ticket ID, or no bin and no ticket ID
NonForced(i) ==
    \/ Variant(i) = "bin" /\ ~i.forceFlag
    \/ Variant(i) = "direct"
    \/ Variant(i) = "lastbin"

\* the record that a checkout of ticket t at clock reading now must persist
RecordOf(t, now) ==
    [kind |-> "json", ticket_id |-> t.ID, ticket_name |-> t.Name, bin_id |-> t.BinID,
     bin_name |-> t.BinName, checked_out_at |-> [layout |-> "RFC3339", sec |-> now]]

\* C1 (as stated): every non-forced checkout attempted while a record exists
\* fails with the Conflict error and leaves the record unchanged.
C1_NonForcedConflict ==
    [][(pc = "called" /\ inv.cmd = "checkout" /\ NonForced(inv) /\ RecordExists(checkoutFile)) =>
           (IsConflict(res'.err) /\ checkoutFile' = checkoutFile)]_vars

\* C1 (amended): every non-forced checkout attempted while a record exists
\* fails with an error and leaves the record unchanged; the error is the
\* Conflict error naming the checked-out ticket, except that a repeat-last-bin
\* checkout finding no BinContext fails with "no bin context found" instead.
C1_NonForcedRejected ==
    [][(pc = "called" /\ inv.cmd = "checkout" /\ NonForced(inv) /\ RecordExists(checkoutFile)) =>
           /\ checkoutFile' = checkoutFile
           /\ res'.err # NoErr
           /\ IF Variant(inv) = "lastbin" /\ binContextFile.kind # "json"
              THEN res'.err.msg = "no bin context found"
              ELSE /\ IsConflict(res'.err)
                   /\ res'.err.ticket = checkoutFile.ticket_name]_vars

\* C1 witness: a --bin checkout without force was refused while a record
\* written by an earlier checkout was on disk
C1_Witness ==
    /\ res.variant = "bin"
    /\ ~res.force
    /\ RecordExists(res.before)
    /\ IsConflict(res.err)
    /\ checkoutFile = res.before

\* C2: a forced checkout that runs while a record exists and checks a ticket
\* out leaves a record whose ticket ID, ticket name, bin ID and bin name are
\* those of the ticket at the selected position and whose timestamp is the
\* time of this invocation.
C2_ForceReplacesEntirely ==
    [][(pc = "called" /\ Variant(inv) = "bin" /\ inv.forceFlag /\ RecordExists(checkoutFile)
            /\ res'.err = NoErr /\ res'.out = "Checked out") =>
           \E i \in 1..Len(inv.env.search.tickets) :
               /\ <<DigitSeq[i + 1]>> = DigitPrefix(TrimSpace(inv.env.input))
               /\ checkoutFile' = RecordOf(inv.env.search.tickets[i], inv.env.now)]_vars

\* C2 witness: a forced checkout has replaced a record by one that differs
\* from it in every field
C2_Witness ==
    /\ res.variant = "bin"
    /\ res.force
    /\ res.before = RecordOf(TicketA, 0)
    /\ res.err = NoErr
    /\ res.out = "Checked out"
    /\ checkoutFile = RecordOf(TicketB, MaxClock)

\* C3 (as stated): a checkout invoked with --force while a record exists,
\* whether with --bin, with no arguments or with a ticket ID, does not fail
\* with the "already checked out" error.
C3_ForceSkipsConflict ==
    [][(pc = "called" /\ inv.cmd = "checkout" /\ inv.forceFlag /\ RecordExists(checkoutFile)) =>
           ~IsConflict(res'.err)]_vars

\* C4: clear returns no error and leaves no checkout record, whether or not a
\* record existed, and a second clear has the same outcome as the first.
C4_ClearIdempotent ==
    [][(pc = "called" /\ inv.cmd = "clear") =>
           /\ res'.err = NoErr
           /\ checkoutFile' = NoFile
           /\ LET once == ExecuteClear(checkoutFile, binContextFile, inv.env)
                  twice == ExecuteClear(once.checkoutFile, once.binContextFile, inv.env)
              IN /\ twice.err = once.err
                 /\ twice.checkoutFile = once.checkoutFile
                 /\ twice.binContextFile = once.binContextFile]_vars

\* C4 witness: clear has run with no record on disk, after an earlier bin
\* checkout (whose bin context is still there) had been cleared
C4_Witness ==
    /\ res.cmd = "clear"
    /\ res.before = NoFile
    /\ res.err = NoErr
    /\ checkoutFile = NoFile
    /\ binContextFile.kind = "json"

\* whether the remote call named call fails in the environment of invocation i
CallFails(i, call) ==
    \/ call = "discover" /\ ~i.env.discover
    \/ call = "user" /\ ~i.env.user
    \/ call = "bins" /\ GetBins(i.env.binSrv).status # "ok"
    \/ call = "search" /\ ~i.env.search.ok

\* the error a checkout returns when the remote call named call fails
ErrorOfCall(call) ==
    IF call = "discover" THEN ErrPlain("failed to discover API endpoint")
    ELSE IF call = "user" THEN ErrPlain("failed to get user information")
    ELSE IF call = "bins" THEN ErrPlain("failed to find bin")
    ELSE ErrPlain("failed to search tickets")

\* the remote calls of a checkout variant, in the order the handler makes them
CallOrder(i) ==
    IF Variant(i) = "direct" THEN <<"discover", "user", "search">>
    ELSE <<"discover", "user", "bins", "search">>

\* C5: when a remote lookup made by a checkout fails (endpoint discovery, user
\* lookup, bin listing or ticket search), the checkout returns that lookup's
\* error, makes no later remote call, and leaves both files as they were.
C5_RemoteFailureWritesNothing ==
    [][(pc = "called" /\ inv.cmd = "checkout") =>
           \A k \in 1..Len(res'.calls) :
               CallFails(inv, res'.calls[k]) =>
                   /\ res'.err = ErrorOfCall(res'.calls[k])
                   /\ k = Len(res'.calls)
                   /\ checkoutFile' = checkoutFile
                   /\ binContextFile' = binContextFile]_vars

\* C5 witness: a forced bin checkout whose bin listing failed has returned the
\* error with the earlier record and bin context still on disk
C5_Witness ==
    /\ res.variant = "bin"
    /\ res.force
    /\ RecordExists(res.before)
    /\ res.err = ErrPlain("failed to find bin")
    /\ res.calls = <<"discover", "user", "bins">>
    /\ checkoutFile = res.before
    /\ binContextFile.kind = "json"

\* the IDs of the tickets the search returned for the user
AssignedIDs(i) == {i.env.search.tickets[k].ID : k \in 1..Len(i.env.search.tickets)}

LookupsSucceed(i) == i.env.config /\ i.env.discover /\ i.env.user /\ i.env.search.ok

\* C6: a direct-ID checkout of ticket T from the Empty state succeeds exactly
\* when the lookups succeed and T is among the user's assigned tickets, and
\* then the record is T's; when the lookups succeed and T is absent it returns
\* the not-found error and the state stays Empty; the BinContext is never
\* created or changed.
C6_DirectCheckoutMembership ==
    [][(pc = "called" /\ Variant(inv) = "direct" /\ checkoutFile = NoFile) =>
           LET T == inv.args[1]
           IN /\ (res'.err = NoErr) <=> (LookupsSucceed(inv) /\ T \in AssignedIDs(inv))
              /\ (res'.err = NoErr) =>
                     \E k \in 1..Len(inv.env.search.tickets) :
                         /\ inv.env.search.tickets[k].ID = T
                         /\ checkoutFile' = RecordOf(inv.env.search.tickets[k], inv.env.now)
              /\ (res'.err # NoErr) => checkoutFile' = NoFile
              /\ (LookupsSucceed(inv) /\ T \notin AssignedIDs(inv)) =>
                     res'.err = ErrPlain("ticket not found or not assigned to you")
              /\ binContextFile' = binContextFile]_vars

\* C6 witness: a direct checkout of T2 from Empty has persisted T2's record
\* and created no bin context
C6_Witness ==
    /\ res.variant = "direct"
    /\ res.before = NoFile
    /\ res.err = NoErr
    /\ checkoutFile = RecordOf(TicketB, 0)
    /\ binContextFile = NoFile

\* the same invocation in a world where ticket id exists (assigned to somebody
\* else) if it did not, and does not exist if it did
WithExistenceFlipped(env, id) ==
    [env EXCEPT !.others = IF id \in @ THEN @ \ {id} ELSE @ \cup {id}]

\* C7 (as stated): when the lookups succeed and the ticket is not among the
\* user's tickets, a direct checkout creates no checkout file, and the error
\* for a ticket that exists but is assigned to somebody else differs from the
\* error for a ticket that does not exist.
C7_DistinguishesNotFoundFromNotAssigned ==
    [][(pc = "called" /\ Variant(inv) = "direct" /\ checkoutFile = NoFile
            /\ LookupsSucceed(inv) /\ inv.args[1] \notin AssignedIDs(inv)) =>
           /\ checkoutFile' = NoFile
           /\ res'.err # NoErr
           /\ res'.err # ExecuteDirectCheckout(checkoutFile, binContextFile,
                             WithExistenceFlipped(inv.env, inv.args[1]), inv.args[1]).err]_vars

\* the payload a quick comment must send for the record in file
CommentFor(file, i) ==
    [ID |-> i.env.commentID, TicketID |-> file.ticket_id, Comment |-> i.args[1]]

\* C15: a quick comment issued while a record exists never prompts and posts
\* at most one comment, addressed to the ticket ID stored in the record; it
\* posts exactly one unless the configuration or the endpoint discovery fails
\* first.  A quick comment issued with no record returns an error and makes no
\* remote call.
C15_QuickCommentUsesRecord ==
    [][(pc = "called" /\ inv.cmd = "quick") =>
           IF RecordExists(checkoutFile)
           THEN /\ res'.out # "prompt"
                /\ res'.posted \in {<<>>, <<CommentFor(checkoutFile, inv)>>}
                /\ (res'.posted = <<>>) <=> (~inv.env.config \/ ~inv.env.discover)
                /\ (res'.err = NoErr) <=> (res'.posted # <<>> /\ inv.env.postOK)
           ELSE /\ res'.err # NoErr
                /\ res'.calls = <<>>
                /\ res'.posted = <<>>]_vars

\* C15 witness: with ticket T2 checked out, a quick comment was posted to T2
C15_Witness ==
    /\ res.cmd = "quick"
    /\ RecordExists(res.before)
    /\ res.before.ticket_id = TicketB.ID
    /\ res.err = NoErr
    /\ Len(res.posted) = 1
    /\ res.posted[1].TicketID = TicketB.ID

\* a quick comment with nothing checked out failed before any remote call
QuickCommentWhileEmpty ==
    /\ res.cmd = "quick"
    /\ res.before = NoFile
    /\ res.err.msg = "no ticket checked out"
    /\ res.calls = <<>>

ReadOnlyCommands == {"list", "status", "quick"}

\* C16: the list, status and quick-comment commands only read the checkout
\* record: whether they succeed or fail, the checkout file and the bin context
\* file after the command equal those before it.
C16_ReadOnlyCommands ==
    [][(pc = "called" /\ inv.cmd \in ReadOnlyCommands) =>
           /\ checkoutFile' = checkoutFile
           /\ binContextFile' = binContextFile]_vars

\* C16 witness: a quick comment whose post was refused has left the record and
\* the bin context of an earlier bin checkout in place
C16_Witness ==
    /\ res.cmd = "quick"
    /\ res.err.msg = "failed to post comment"
    /\ RecordExists(res.before)
    /\ checkoutFile = res.before
    /\ binContextFile.kind = "json"

\* the list command has succeeded, and failed in its bin lookup, with a record on disk
ListedWithRecord ==
    /\ res.cmd = "list"
    /\ res.err = NoErr
    /\ RecordExists(checkoutFile)

ListFailedWithRecord ==
    /\ res.cmd = "list"
    /\ res.err.msg = "failed to find bin"
    /\ RecordExists(checkoutFile)

StatusShownWithRecord ==
    /\ res.cmd = "status"
    /\ res.out = "Currently checked out"
    /\ RecordExists(checkoutFile)

\* a checkout that picks its ticket from the tickets of a bin
BinScoped(i) == i.cmd = "checkout" /\ Variant(i) \in {"bin", "lastbin"}

\* a line that holds nothing but spaces
Blank(line) == \A k \in 1..Len(line) : line[k] = " "

\* C17: a bin checkout that has shown its prompt and reads a blank line ends
\* with the error "cancelled" and writes neither the checkout record nor the
\* bin context.
C17_BlankSelectionCancels ==
    [][(pc = "called" /\ BinScoped(inv) /\ res'.out = "prompt" /\ Blank(inv.env.input)) =>
           /\ res'.err.msg = "cancelled"
           /\ checkoutFile' = checkoutFile
           /\ binContextFile' = binContextFile]_vars

\* C17 witness: a forced checkout from the bin "I P" was cancelled at the
\* prompt by a line of one space; the record and the bin context of the
\* earlier checkout from another bin are still there
C17_Witness ==
    /\ res.variant = "bin"
    /\ res.force
    /\ res.out = "prompt"
    /\ res.err.msg = "cancelled"
    /\ RecordExists(res.before)
    /\ checkoutFile = res.before
    /\ binContextFile.kind = "json"
    /\ binContextFile.bin_name = BinDo.Name

\* the line, spaces around it aside, is a decimal numeral naming one of n tickets
ValidSelection(line, n) ==
    LET typed == TrimSpace(line)
    IN /\ typed # <<>>
       /\ \A k \in 1..Len(typed) : typed[k] \in Digits
       /\ DecimalValue(typed) \in 1..n

\* C18 (as stated): a bin checkout that has shown its prompt does not end on a
\* non-numeric or out-of-range line; it ends only once a valid number or a
\* blank line has been read.
C18_InvalidSelectionReprompts ==
    [][(pc = "called" /\ BinScoped(inv) /\ res'.out = "prompt" /\ pc' = "idle") =>
           \/ Blank(inv.env.input)
           \/ ValidSelection(inv.env.input, Len(inv.env.search.tickets))]_vars

\* what the code does with a line that is neither blank nor a valid number:
\* the checkout ends at once; with the error "invalid selection" and nothing
\* written when the line does not start with the number of a ticket, and with
\* that ticket checked out when it does
C18_InvalidSelectionEndsCheckout ==
    [][(pc = "called" /\ BinScoped(inv) /\ res'.out \in {"prompt", "Checked out"}
            /\ ~Blank(inv.env.input)
            /\ ~ValidSelection(inv.env.input, Len(inv.env.search.tickets))) =>
           /\ pc' = "idle"
           /\ IF DecimalValue(DigitPrefix(TrimSpace(inv.env.input))) \in 1..Len(inv.env.search.tickets)
              THEN res'.err = NoErr
              ELSE /\ res'.err.msg = "invalid selection"
                   /\ checkoutFile' = checkoutFile
                   /\ binContextFile' = binContextFile]_vars

\* the outcome of fb checkout --bin <cached name> with the force flag force,
\* run on the files and in the environment of the running invocation
AsBinCheckout(force) ==
    ExecuteCheckout(checkoutFile, binContextFile, inv.env, <<>>,
                    binContextFile.bin_name, force)

\* the running invocation ends as the outcome r
EndsAs(r) ==
    /\ res'.err = r.err
    /\ res'.out = r.out
    /\ res'.calls = r.calls
    /\ checkoutFile' = r.checkoutFile
    /\ binContextFile' = r.binContextFile

\* C19 (as stated): a repeat-last-bin checkout fails with the error that tells
\* the user to name a bin when no BinContext exists, and otherwise ends exactly
\* as the bin checkout with the cached bin name and the same command line
\* otherwise: same error or listing, same record, same BinContext.
C19_RepeatLastBinEquivalence ==
    [][(pc = "called" /\ inv.cmd = "checkout" /\ Variant(inv) = "lastbin") =>
           IF binContextFile.kind # "json"
           THEN /\ res'.err.msg = "no bin context found"
                /\ UNCHANGED <<checkoutFile, binContextFile>>
           ELSE EndsAs(AsBinCheckout(inv.forceFlag))]_vars

\* what the code does: with a BinContext, a repeat-last-bin checkout ends as
\* the bin checkout with the cached name and without --force, whether or not
\* --force was given
C19_RepeatLastBinAsNonForced ==
    [][(pc = "called" /\ inv.cmd = "checkout" /\ Variant(inv) = "lastbin") =>
           IF binContextFile.kind # "json"
           THEN /\ res'.err.msg = "no bin context found"
                /\ UNCHANGED <<checkoutFile, binContextFile>>
           ELSE EndsAs(AsBinCheckout(FALSE))]_vars

\* a repeat-last-bin checkout has checked a ticket out of the cached bin
RepeatLastBinCheckedOut ==
    /\ res.variant = "lastbin"
    /\ res.err = NoErr
    /\ res.out = "Checked out"
    /\ res.before = NoFile
    /\ RecordExists(checkoutFile)
    /\ binContextFile.kind = "json"

\* the bin checkout asked the remote for the bin's tickets and got none
NoCandidates(i, calls) ==
    /\ BinScoped(i)
    /\ Len(calls) > 0
    /\ calls[Len(calls)] = "search"
    /\ i.env.search.ok
    /\ i.env.search.tickets = <<>>

\* C25: a bin checkout whose ticket query returns zero candidates reports
\* that without error and without prompting, and writes neither the checkout
\* record nor the BinContext; under force an existing record stays in place.
C25_NoCandidatesNoWrites ==
    [][(pc = "called" /\ NoCandidates(inv, res'.calls)) =>
           /\ res'.err = NoErr
           /\ res'.out = "No tickets found in bin"
           /\ checkoutFile' = checkoutFile
           /\ binContextFile' = binContextFile]_vars

\* C25 witness: a forced checkout from the bin "I P" found no tickets while a
\* record and the bin context of another bin were on disk; both are still there
C25_Witness ==
    /\ res.variant = "bin"
    /\ res.force
    /\ res.out = "No tickets found in bin"
    /\ res.calls = <<"discover", "user", "bins", "search">>
    /\ RecordExists(res.before)
    /\ checkoutFile = res.before
    /\ binContextFile = res.beforeCtx
    /\ binContextFile.kind = "json"
    /\ binContextFile.bin_name = BinDo.Name

\* a bin checkout without force found no tickets from Empty: nothing was written
NoCandidatesFromEmpty ==
    /\ res.variant = "bin"
    /\ ~res.force
    /\ res.out = "No tickets found in bin"
    /\ checkoutFile = NoFile
    /\ binContextFile = NoFile

----------------------------------------------------------------------------
(* The fetcher on its own: every bins endpoint within the bounds *)

FetchBins == {BinDo, BinIP}

Pages == UNION {[1..n -> FetchBins] : n \in 0..MaxPageLen}

TokenValues == {NoToken} \cup Tokens

Bodies ==
    {ObjectBody(TRUE, p, t) : p \in Pages, t \in TokenValues}
    \cup {ObjectBody(FALSE, <<>>, t) : t \in TokenValues}
    \cup {ArrayBody(p) : p \in Pages}
    \cup {InvalidBody}

Responses == {HttpOK(b) : b \in Bodies} \cup {HttpFail}

\* the page token a response hands to the client, NoToken when it has none
TokenIn(resp) ==
    IF resp.ok /\ resp.body.kind = "object" THEN resp.body.token ELSE NoToken

\* the token of the request the endpoint has no answer for yet: the first
\* request carries no token and a later one only the token the previous
\* response handed out, so the walk from the first request ends at the one
\* token a client can still ask for, or nowhere
RECURSIVE Unanswered(_, _, _)
Unanswered(srv, tok, seen) ==
    IF srv[tok] = HttpFail
    THEN {tok}
    ELSE LET nt == TokenIn(srv[tok])
         IN IF nt \in seen THEN {} ELSE Unanswered(srv, nt, seen \cup {nt})

InitFetch ==
    /\ fetchSrv = IdleServer
    /\ fetchOut = NoFetch
    /\ resolveOut = NoResolve
    /\ checkoutFile = NoFile
    /\ binContextFile = NoFile
    /\ pc = "idle"
    /\ inv = NoInv
    /\ res = NoRes
    /\ NoAux

\* the remote service gains the page it serves for the next request of the walk
ServePage ==
    /\ fetchOut.status = "none"
    /\ \E tok \in Unanswered(fetchSrv, NoToken, {NoToken}) :
           \E r \in Responses \ {HttpFail} :
               fetchSrv' = [fetchSrv EXCEPT ![tok] = r]
    /\ UNCHANGED <<fetchOut, resolveOut, stateVars, auxVars>>

\* one call of Client.GetBins against the endpoint
CallGetBins ==
    /\ fetchOut.status = "none"
    /\ fetchOut' = GetBins(fetchSrv)
    /\ UNCHANGED <<fetchSrv, resolveOut, stateVars, auxVars>>

NextFetch == ServePage \/ CallGetBins

SpecFetch == InitFetch /\ [][NextFetch]_vars

----------------------------------------------------------------------------
(* Properties of the fetcher *)

\* the response the endpoint gives to the k-th request of the call
ResponseTo(k) == doRequest(fetchSrv, fetchOut.sent[k])

IsPaginated(resp) == resp.ok /\ resp.body.kind = "object" /\ resp.body.hasResults

\* toks are the tokens of N requests that walk N paginated pages: the first
\* request has no token, each later one the token of the previous response,
\* and only the last response omits the token
IsPageChain(srv, toks) ==
    /\ toks[1] = NoToken
    /\ \A k \in 1..Len(toks) : IsPaginated(srv[toks[k]])
    /\ \A k \in 1..(Len(toks) - 1) : srv[toks[k]].body.token = toks[k + 1] /\ toks[k + 1] # NoToken
    /\ srv[toks[Len(toks)]].body.token = NoToken

RECURSIVE ConcatPages(_, _)
ConcatPages(srv, toks) ==
    IF toks = <<>> THEN <<>>
    ELSE srv[Head(toks)].body.items \o ConcatPages(srv, Tail(toks))

\* the token sequences a walk can have: no token first, then page tokens
TokenWalks ==
    {<<NoToken>> \o w : w \in UNION {[1..n -> Tokens] : n \in 0..(MaxRequests - 1)}}

\* C8: when the endpoint serves N pages linked by page tokens and the last
\* response omits the token, GetBins issues exactly N requests, the first
\* without a token and each later one with the token of the previous response,
\* and returns the items of the N pages concatenated in response order.
C8_PaginationCompleteness ==
    fetchOut.status # "none" =>
        \A toks \in TokenWalks :
            IsPageChain(fetchSrv, toks) =>
                /\ fetchOut.status = "ok"
                /\ Len(fetchOut.sent) = Len(toks)
                /\ \A k \in 1..Len(toks) :
                       /\ fetchOut.sent[k].path = "/bins"
                       /\ fetchOut.sent[k].hasToken = (k > 1)
                       /\ RequestToken(fetchOut.sent[k]) = toks[k]
                /\ fetchOut.bins = ConcatPages(fetchSrv, toks)

\* C8 witness: a finished fetch over three linked pages, at least two of them
\* non-empty and different
C8_Witness ==
    /\ fetchOut.status = "ok"
    /\ Len(fetchOut.sent) = 3
    /\ \A k \in 1..3 : IsPaginated(ResponseTo(k))
    /\ ResponseTo(1).body.items # <<>>
    /\ ResponseTo(2).body.items # <<>>
    /\ ResponseTo(1).body.items # ResponseTo(2).body.items
    /\ Len(fetchOut.bins) >= 3

\* C9: when the first response is a bare JSON array, GetBins returns exactly
\* the items of that array and issues no second request.
C9_LegacyArraySinglePage ==
    (fetchOut.status # "none" /\ fetchSrv[NoToken].ok /\ fetchSrv[NoToken].body.kind = "array") =>
        /\ fetchOut.status = "ok"
        /\ fetchOut.bins = fetchSrv[NoToken].body.items
        /\ Len(fetchOut.sent) = 1
        /\ ~fetchOut.sent[1].hasToken

\* C9 witness: a finished fetch whose first response was a non-empty bare array
C9_Witness ==
    /\ fetchOut.status = "ok"
    /\ fetchSrv[NoToken].ok
    /\ fetchSrv[NoToken].body.kind = "array"
    /\ fetchSrv[NoToken].body.items # <<>>
    /\ fetchOut.bins # <<>>

\* C10: a response that is not of the paginated shape (not an object, or an
\* object whose results field is absent) is the last one requested, whether or
\* not its body carried a page token; a bare array there ends the fetch
\* successfully with its items as the final page.
C10_FallbackIsFinalPage ==
    fetchOut.status # "none" =>
        \A k \in 1..Len(fetchOut.sent) :
            (ResponseTo(k).ok /\ ~IsPaginated(ResponseTo(k))) =>
                /\ k = Len(fetchOut.sent)
                /\ fetchOut.status # "running"
                /\ (ResponseTo(k).body.kind = "array") =>
                       /\ fetchOut.status = "ok"
                       /\ Len(fetchOut.bins) >= Len(ResponseTo(k).body.items)
                       /\ SubSeq(fetchOut.bins,
                                 Len(fetchOut.bins) - Len(ResponseTo(k).body.items) + 1,
                                 Len(fetchOut.bins)) = ResponseTo(k).body.items

\* C10 witness: the second response is an object without results that still
\* carries a page token, and the fetch has ended after two requests
C10_Witness ==
    /\ fetchOut.status = "error"
    /\ Len(fetchOut.sent) = 2
    /\ ResponseTo(2).ok
    /\ ResponseTo(2).body.kind = "object"
    /\ ~ResponseTo(2).body.hasResults
    /\ ResponseTo(2).body.token # NoToken

\* a bare array as the second page ends the fetch
FetchEndedByArrayPage ==
    /\ fetchOut.status = "ok"
    /\ Len(fetchOut.sent) = 2
    /\ ResponseTo(2).body.kind = "array"
    /\ ResponseTo(2).body.items # <<>>


\* a page fails when its request fails or its body is neither a paginated
\* object nor a bare array
PageFails(resp) == ~resp.ok \/ (~IsPaginated(resp) /\ resp.body.kind # "array")

\* C11: the fetch is all-or-nothing: when the request or the parse of any page
\* fails, GetBins returns that error and no items at all, whatever pages it
\* had already fetched, and the failing request is the last one it issued.
C11_FetchAllOrNothing ==
    fetchOut.status # "none" =>
        \A k \in 1..Len(fetchOut.sent) :
            PageFails(ResponseTo(k)) =>
                /\ fetchOut.status = "error"
                /\ fetchOut.err = (IF ResponseTo(k).ok THEN "failed to parse bins response"
                                                       ELSE "failed to get bins")
                /\ fetchOut.bins = <<>>
                /\ k = Len(fetchOut.sent)

\* C11 witness: two non-empty pages were fetched, then the third request failed
C11_Witness ==
    /\ fetchOut.status = "error"
    /\ fetchOut.bins = <<>>
    /\ Len(fetchOut.sent) = 3
    /\ IsPaginated(ResponseTo(1)) /\ ResponseTo(1).body.items # <<>>
    /\ IsPaginated(ResponseTo(2)) /\ ResponseTo(2).body.items # <<>>
    /\ PageFails(ResponseTo(3))

\* a parse failure on the second page discards the first
FetchDiscardsOnParseFailure ==
    /\ fetchOut.status = "error"
    /\ Len(fetchOut.sent) = 2
    /\ ResponseTo(1).body.items # <<>>
    /\ ResponseTo(2).ok


\* C29: against every remote, one that returns a page token on every response
\* or repeats a token included, the paginated fetch issues finitely many
\* requests and returns with a result or an error.
C29_FetchTerminates ==
    fetchOut.status \in {"none", "ok", "error"}

\* a fetch that has not returned after MaxRequests requests has sent one
\* request twice: the loop keeps no more than the page token between
\* requests, so from the second sending on it repeats itself without end
C29_UnfinishedFetchRepeats ==
    fetchOut.status = "running" =>
        /\ Len(fetchOut.sent) = MaxRequests
        /\ \E i, j \in 1..Len(fetchOut.sent) : i < j /\ fetchOut.sent[i] = fetchOut.sent[j]

\* the remote answered the second page with the token of that same page
FetchLoopsOnRepeatedToken ==
    /\ fetchOut.status = "running"
    /\ TokenIn(fetchSrv[NoToken]) = <<"t", 1>>
    /\ TokenIn(fetchSrv[<<"t", 1>>]) = <<"t", 1>>

----------------------------------------------------------------------------
(* The name resolver, run against bins endpoints that serve pages of named *)
(* bins                                                                    *)

\* the bins the endpoint may list: an alphanumeric name, a name with a space,
\* and a second bin whose name differs from it only in letter case
ResolveBins == {BinDo, BinIP, BinIPdup}

\* a page lists distinct bins
NamedPages ==
    {p \in UNION {[1..n -> ResolveBins] : n \in 0..Cardinality(ResolveBins)} :
        \A i, j \in 1..Len(p) : p[i] = p[j] => i = j}

\* the collection the endpoint serves, read off its pages in page order;
\* complete when every page down to the one without a token is there
RECURSIVE ServedFrom(_, _)
ServedFrom(srv, tok) ==
    IF ~IsPaginated(srv[tok])
    THEN [complete |-> FALSE, bins |-> <<>>]
    ELSE IF srv[tok].body.token = NoToken
         THEN [complete |-> TRUE, bins |-> srv[tok].body.items]
         ELSE LET rest == ServedFrom(srv, srv[tok].body.token)
              IN [complete |-> rest.complete, bins |-> srv[tok].body.items \o rest.bins]

\* what the user may pass as a bin filter: the names in several casings, the
\* name of no bin, and the ID of a bin
BinFilters ==
    {Str2("D", "o"), Str2("d", "o"), Str2("D", "O"),
     Str3("I", " ", "P"), Str3("i", " ", "p"), Str3("I", " ", "p"),
     Str3("N", " ", "X"), Str2("b", "2")}

\* the token the endpoint hands out with the page it serves for tok
NextPageToken(tok) ==
    IF tok = NoToken THEN <<"t", 1>>
    ELSE IF tok[2] < MaxToken THEN <<"t", tok[2] + 1>> ELSE NoToken

\* the remote service gains its next page of bins, the last one or not; a bin
\* is listed once in the collection
ServeNamedPage ==
    /\ resolveOut.status = "none"
    /\ \E tok \in Unanswered(fetchSrv, NoToken, {NoToken}) :
           \E p \in NamedPages, nt \in {NoToken, NextPageToken(tok)} :
               /\ \A i \in 1..Len(p), j \in 1..Len(ServedFrom(fetchSrv, NoToken).bins) :
                      p[i] # ServedFrom(fetchSrv, NoToken).bins[j]
               /\ fetchSrv' = [fetchSrv EXCEPT ![tok] = HttpOK(ObjectBody(TRUE, p, nt))]
    /\ UNCHANGED <<fetchOut, resolveOut, stateVars, auxVars>>

\* one call of service.ResolveBinFilter against the endpoint
CallResolveBinFilter ==
    /\ resolveOut.status = "none"
    /\ \E binFilter \in BinFilters :
           resolveOut' = [status |-> "done", op |-> "resolve", binFilter |-> binFilter,
                          result |-> ResolveBinFilter(fetchSrv, binFilter)]
    /\ UNCHANGED <<fetchSrv, fetchOut, stateVars, auxVars>>

\* one call of Client.LookupBinIDByName against the endpoint
CallLookupBinIDByName ==
    /\ resolveOut.status = "none"
    /\ \E binName \in BinFilters :
           resolveOut' = [status |-> "done", op |-> "lookup", binFilter |-> binName,
                          result |-> LookupBinIDByName(fetchSrv, binName)]
    /\ UNCHANGED <<fetchSrv, fetchOut, stateVars, auxVars>>

NextResolve == ServeNamedPage \/ CallResolveBinFilter \/ CallLookupBinIDByName

SpecResolve == Init /\ [][NextResolve]_vars


----------------------------------------------------------------------------
(* Properties of the name resolver *)

Served == ServedFrom(fetchSrv, NoToken)

\* a call of ResolveBinFilter, of LookupBinIDByName, has returned
Resolved == resolveOut.status = "done" /\ resolveOut.op = "resolve"

LookedUp == resolveOut.status = "done" /\ resolveOut.op = "lookup"

\* the call succeeded and returned the ID binID
ResolvedTo(result, binID) == result.err = "" /\ result.id = binID

SameUpToCase(a, b) == ToLower(a) = ToLower(b)

\* positions in the served collection of the bins named as the filter, up to case
NamedAsFilter ==
    {i \in 1..Len(Served.bins) : SameUpToCase(Served.bins[i].Name, resolveOut.binFilter)}

\* C12 as stated: for a bin of the collection whose display name equals the
\* filter up to letter case, resolving the filter yields the ID of that bin.
C12_CaseInsensitiveResolution ==
    (Resolved /\ Served.complete) =>
        \A i \in NamedAsFilter : ResolvedTo(resolveOut.result, Served.bins[i].ID)

\* C12 amended: for a bin whose display name holds a character that is neither
\* a letter nor a digit, resolving any string equal to the name up to letter
\* case looks the name up and yields the ID of the first bin in fetch order
\* that has this name up to case, on whichever page it is served.
C12_CaseInsensitiveNames ==
    (Resolved /\ Served.complete) =>
        \A i \in NamedAsFilter :
            ~IsBinID(Served.bins[i].Name) =>
                /\ resolveOut.result.called
                /\ \E first \in NamedAsFilter :
                       /\ \A j \in NamedAsFilter : first <= j
                       /\ ResolvedTo(resolveOut.result, Served.bins[first].ID)

\* C12 witness: the only bin named "I P" is served on the second page and was
\* resolved from "i p"
C12_Witness ==
    /\ Resolved
    /\ Served.complete
    /\ resolveOut.binFilter = Str3("i", " ", "p")
    /\ fetchSrv[NoToken].body.items = <<BinDo>>
    /\ fetchSrv[<<"t", 1>>].ok /\ fetchSrv[<<"t", 1>>].body.items = <<BinIP>>
    /\ Served.bins = <<BinDo, BinIP>>
    /\ resolveOut.result.err = ""
    /\ resolveOut.result.id = BinIP.ID


\* non-empty and made of letters and digits only
Alphanumeric(s) == Len(s) > 0 /\ \A i \in 1..Len(s) : s[i] \in Letters \cup Digits

\* C13: resolving a non-empty, purely alphanumeric string returns that string
\* unchanged and makes no remote call, whether or not a bin has that ID and
\* whether or not a bin has that exact display name.
C13_IDPassthrough ==
    (Resolved /\ Alphanumeric(resolveOut.binFilter)) =>
        /\ resolveOut.result.err = ""
        /\ resolveOut.result.id = resolveOut.binFilter
        /\ ~resolveOut.result.called

\* C13 witness: "Do" was resolved while the endpoint lists a bin with the
\* display name "Do" and no bin with the ID "Do"
C13_Witness ==
    /\ Resolved
    /\ resolveOut.binFilter = Str2("D", "o")
    /\ Served.complete
    /\ \E i \in 1..Len(Served.bins) : Served.bins[i].Name = resolveOut.binFilter
    /\ \A i \in 1..Len(Served.bins) : Served.bins[i].ID # resolveOut.binFilter
    /\ resolveOut.result.id = Str2("D", "o")

\* an ID with a digit in it, of a bin the endpoint lists, passes through too
ResolvedListedID ==
    /\ Resolved
    /\ resolveOut.binFilter = BinIP.ID
    /\ \E i \in 1..Len(Served.bins) : Served.bins[i] = BinIP
    /\ ~resolveOut.result.called


\* C14: when several bins of the collection share a display name up to letter
\* case, looking that name up returns the ID of the first of them in fetch
\* order: page order, then position within the page.
C14_FirstMatchWins ==
    (LookedUp /\ Served.complete /\ Cardinality(NamedAsFilter) >= 2) =>
        \E first \in NamedAsFilter :
            /\ \A j \in NamedAsFilter : first <= j
            /\ ResolvedTo(resolveOut.result, Served.bins[first].ID)

\* C14 witness: "I P" and "i p" are listed on one page in that order, after an
\* earlier page, and looking up "i p" returned the ID of "I P"
C14_Witness ==
    /\ LookedUp
    /\ Served.complete
    /\ resolveOut.binFilter = BinIPdup.Name
    /\ fetchSrv[NoToken].body.items = <<BinDo>>
    /\ fetchSrv[<<"t", 1>>].ok /\ fetchSrv[<<"t", 1>>].body.items = <<BinIP, BinIPdup>>
    /\ resolveOut.result.id = BinIP.ID

\* the two bins are on different pages and the one on the earlier page wins
FirstMatchAcrossPages ==
    /\ LookedUp
    /\ Served.complete
    /\ resolveOut.binFilter = BinIP.Name
    /\ fetchSrv[NoToken].body.items = <<BinIPdup>>
    /\ fetchSrv[<<"t", 1>>].ok /\ fetchSrv[<<"t", 1>>].body.items = <<BinDo, BinIP>>
    /\ resolveOut.result.id = BinIPdup.ID


----------------------------------------------------------------------------
(* The bin context across the commands *)

\* the ID the bins endpoint srv gives the bin named name: the name itself when
\* it reads as an ID, else the ID of the first bin listed under that name
RequestedBinID(srv, name) ==
    IF Alphanumeric(name) THEN name
    ELSE LET listed == ServedFrom(srv, NoToken).bins
             named == {k \in 1..Len(listed) : SameUpToCase(listed[k].Name, name)}
         IN listed[CHOOSE k \in named : \A j \in named : k <= j].ID

\* the bin a bin-scoped checkout asks for: the --bin flag, or the cached name
RequestedBinName(i, ctx) == IF Variant(i) = "bin" THEN i.binFlag ELSE ctx.bin_name

BinContextOverwritten ==
    /\ res.variant = "bin"
    /\ res.out = "Checked out"
    /\ res.beforeCtx.kind = "json"
    /\ res.beforeCtx.bin_name = BinDo.Name
    /\ binContextFile.bin_name = BinIP.Name
    /\ binContextFile.bin_id \in {BinIP.ID, BinIPdup.ID}

\* a direct-ID checkout has written a record and left the bin context alone
DirectCheckoutKeepsBinContext ==
    /\ res.variant = "direct"
    /\ res.err = NoErr
    /\ res.before = NoFile
    /\ RecordExists(checkoutFile)
    /\ binContextFile.kind = "json"
    /\ binContextFile = res.beforeCtx

----------------------------------------------------------------------------
(* One terminal session: fb commands run one after the other, each on the   *)
(* files the previous one left, and the session remembers what each did     *)

\* the longest session followed
MaxSession == 4

\* cli.Run: the flags and the subcommand pick the handler
Run(i, cf, bf) ==
    IF i.cmd = "checkout" THEN ExecuteCheckout(cf, bf, i.env, i.args, i.binFlag, i.forceFlag)
    ELSE IF i.cmd = "clear" THEN ExecuteClear(cf, bf, i.env)
    ELSE IF i.cmd = "status" THEN ExecuteStatus(cf, bf, i.env)
    ELSE IF i.cmd = "quick" THEN ExecuteQuick(cf, bf, i.env, i.args[1])
    ELSE Execute(cf, bf, i.env, i.binFlag)

\* a bin with tickets, one of which is listed as the only candidate and picked
\* by typing 1
OneCandidateEnvs ==
    {Env(TRUE, TRUE, TRUE, SrvOnePage, TRUE, <<t>>, <<"1">>, 0, {}) : t \in {TicketA, TicketB}}

\* the commands typed in a session: fb checkout --bin, fb -c, fb clear, fb -o
SessionInvocations ==
    {Invocation("checkout", <<>>, b, FALSE, e) :
         b \in {BinDo.Name, BinIP.Name}, e \in OneCandidateEnvs}
    \cup {Invocation("quick", <<"Done">>, EmptyString, FALSE, [DefaultEnv EXCEPT !.postOK = ok]) :
              ok \in BOOLEAN}
    \cup {Invocation("clear", <<>>, EmptyString, FALSE, DefaultEnv),
          Invocation("status", <<>>, EmptyString, FALSE, DefaultEnv)}

\* the next command of the session is typed
SessionInvoke ==
    /\ pc = "idle"
    /\ Len(log) < MaxSession
    /\ inv' \in SessionInvocations
    /\ pc' = "called"
    /\ res' = NoRes
    /\ UNCHANGED <<checkoutFile, binContextFile, fetchVars, auxVars>>

\* the process ends with outcome r, and the session remembers it
SessionReturn(r) ==
    /\ checkoutFile' = r.checkoutFile
    /\ binContextFile' = r.binContextFile
    /\ res' = [cmd |-> inv.cmd, variant |-> Variant(inv), force |-> inv.forceFlag,
               before |-> checkoutFile, beforeCtx |-> binContextFile,
               err |-> r.err, out |-> r.out, calls |-> r.calls, posted |-> r.posted]
    /\ log' = Append(log, [inv |-> inv, before |-> checkoutFile,
                           after |-> r.checkoutFile, afterCtx |-> r.binContextFile,
                           err |-> r.err, out |-> r.out, posted |-> r.posted])
    /\ pc' = "idle"
    /\ inv' = NoInv
    /\ UNCHANGED <<fetchVars, procs, listing>>

\* the command runs to its end
SessionRun ==
    /\ pc = "called"
    /\ SessionReturn(Run(inv, checkoutFile, binContextFile))

NextSession == SessionInvoke \/ SessionRun

SpecSession == Init /\ [][NextSession]_vars

----------------------------------------------------------------------------
(* Properties of a session *)

\* log[k] is a bin checkout of bin b run from Empty whose only candidate is a
\* ticket t of that bin
ChecksOutFromEmpty(k, t) ==
    /\ log[k].inv.cmd = "checkout"
    /\ log[k].before = NoFile
    /\ log[k].inv.env.search.tickets = <<t>>
    /\ log[k].inv.binFlag = t.BinName

\* log[k..k+3] is: bin checkout from Empty, quick comment, clear, status
IsEndToEnd(k, t) ==
    /\ k + 3 <= Len(log)
    /\ ChecksOutFromEmpty(k, t)
    /\ log[k + 1].inv.cmd = "quick"
    /\ log[k + 2].inv.cmd = "clear"
    /\ log[k + 3].inv.cmd = "status"

\* C21: from Empty, a bin checkout with one candidate and selection 1 persists
\* a record with that ticket's ID, name and bin; the quick comment that follows
\* is posted to that ticket ID and asks nothing; the clear that follows removes
\* the record; the status that follows reports that no ticket is checked out.
C21_EndToEnd ==
    \A k \in 1..Len(log) : \A t \in {TicketA, TicketB} :
        IsEndToEnd(k, t) =>
            /\ log[k].err = NoErr
            /\ log[k].after.kind = "json"
            /\ log[k].after.ticket_id = t.ID
            /\ log[k].after.ticket_name = t.Name
            /\ log[k].after.bin_name = log[k].inv.binFlag
            /\ Len(log[k + 1].posted) = 1
            /\ log[k + 1].posted[1].TicketID = t.ID
            /\ log[k + 1].posted[1].Comment = log[k + 1].inv.args[1]
            /\ log[k + 1].out # "prompt"
            /\ log[k + 2].err = NoErr
            /\ log[k + 2].after = NoFile
            /\ log[k + 3].err = NoErr
            /\ log[k + 3].out = "No ticket currently checked out"

\* the four commands were run in that order on a bin whose name is resolved
\* through the bins endpoint, and the comment was accepted
C21_Witness ==
    /\ Len(log) = 4
    /\ IsEndToEnd(1, TicketB)
    /\ log[2].out = "Comment added"
    /\ checkoutFile = NoFile
    /\ res.out = "No ticket currently checked out"

\* log[k] is a quick comment on a record whose ticket the remote no longer
\* accepts comments for
CommentsOnStaleRecord(k) ==
    /\ log[k].inv.cmd = "quick"
    /\ log[k].before.kind = "json"
    /\ ~log[k].inv.env.postOK

\* C23: when the checked-out ticket was deleted or unassigned remotely, the
\* quick comment that discovers it clears the checkout: afterwards the state
\* is Empty.
C23_StaleCheckoutCleared ==
    \A k \in 1..Len(log) :
        CommentsOnStaleRecord(k) => log[k].after = NoFile

\* what the quick comment does instead: the post fails and the record stays
C23_StaleCheckoutKept ==
    \A k \in 1..Len(log) :
        CommentsOnStaleRecord(k) =>
            /\ log[k].err = ErrPlain("failed to post comment")
            /\ log[k].after = log[k].before

\* log[k] is a bin checkout that reported success
BinCheckoutSucceeded(k) ==
    /\ log[k].inv.cmd = "checkout"
    /\ BinScoped(log[k].inv)
    /\ log[k].err = NoErr
    /\ log[k].out = "Checked out"

\* C28: after every successful bin checkout the bin ID in the checkout record
\* equals the resolved bin ID that the same invocation stored in BinContext,
\* whatever tickets the remote returned to the bin-filtered query.
C28_RecordBinMatchesContext ==
    \A k \in 1..Len(log) :
        BinCheckoutSucceeded(k) => log[k].after.bin_id = log[k].afterCtx.bin_id

\* what the two files hold instead: the record the bin of the selected ticket,
\* the context the ID the resolver returned for --bin
C28_RecordBinFromTicket ==
    \A k \in 1..Len(log) :
        BinCheckoutSucceeded(k) =>
            /\ log[k].after.bin_id = log[k].inv.env.search.tickets[1].BinID
            /\ log[k].afterCtx.bin_id =
                   ResolveBinFilter(log[k].inv.env.binSrv, log[k].inv.binFlag).id

\* the same for a bin whose name the bins endpoint resolves: the remote
\* answered the query for bin "I P" with a ticket of bin "Do"
RecordBinDiffersFromResolvedBin ==
    \E k \in 1..Len(log) :
        /\ BinCheckoutSucceeded(k)
        /\ log[k].inv.binFlag = BinIP.Name
        /\ log[k].afterCtx.bin_id = BinIP.ID
        /\ log[k].after.bin_id = BinDo.ID

----------------------------------------------------------------------------
(* Local faults: writes and removals that fail, and a checkout file that    *)
(* was damaged between two commands                                         *)

\* how os.WriteFile may end
WriteOutcomes == {"ok", "fail_open", "fail_write"}

\* a bin checkout or a direct checkout that gets as far as its writes, with
\* every way the writes may end
WritingEnvs ==
    {[Env(TRUE, TRUE, TRUE, SrvOnePage, TRUE, <<TicketB>>, <<"1">>, 0, {})
          EXCEPT !.saveCheckout = c, !.saveBinCtx = b] : c \in WriteOutcomes, b \in WriteOutcomes}

\* fb checkout in its three variants, also against a remote that is down;
\* fb clear with a removal that works or is refused; fb -c; fb -o
FaultInvocations ==
    {Invocation("checkout", <<>>, b, f, e) :
         b \in {BinIP.Name, EmptyString}, f \in BOOLEAN, e \in WritingEnvs}
    \cup {Invocation("checkout", <<TicketB.ID>>, EmptyString, FALSE, e) : e \in WritingEnvs}
    \cup {Invocation("checkout", <<>>, BinIP.Name, f,
                     Env(TRUE, FALSE, TRUE, SrvDown, FALSE, <<>>, <<" ">>, 0, {})) : f \in BOOLEAN}
    \cup {Invocation("clear", <<>>, EmptyString, FALSE, [DefaultEnv EXCEPT !.remove = r]) :
              r \in {"ok", "fail"}}
    \cup {Invocation("quick", <<"Done">>, EmptyString, FALSE, DefaultEnv),
          Invocation("status", <<>>, EmptyString, FALSE, DefaultEnv)}

\* a command is typed
FaultInvoke ==
    /\ pc = "idle"
    /\ inv' \in FaultInvocations
    /\ pc' = "called"
    /\ res' = NoRes
    /\ UNCHANGED <<checkoutFile, binContextFile, fetchVars, auxVars>>

\* the command runs to its end
FaultRun ==
    /\ pc = "called"
    /\ Return(Run(inv, checkoutFile, binContextFile))

\* between two commands the checkout file is damaged from outside: its bytes
\* stop being JSON, or it can no longer be read
Damage ==
    /\ pc = "idle"
    /\ checkoutFile.kind = "json"
    /\ checkoutFile' \in {CorruptFile, UnreadableFile}
    /\ UNCHANGED <<binContextFile, pc, inv, res, fetchVars, auxVars>>

NextFaults == FaultInvoke \/ FaultRun \/ Damage

SpecFaults == Init /\ [][NextFaults]_vars

----------------------------------------------------------------------------
(* Properties under local faults *)

\* the file is there and LoadCheckout fails on it
Unloadable(file) == file.kind \in {"corrupt", "unreadable"}

\* C24: a checkout file that exists and cannot be read or parsed is treated
\* as the Empty state by every operation: status reports no ticket checked
\* out, a quick comment reports no ticket checked out, a non-forced checkout
\* goes on without a Conflict error, exactly as it does from Empty, and clear
\* succeeds and removes the file when the removal itself is not refused.
C24_UnloadableFileIsEmpty ==
    [][(pc = "called" /\ Unloadable(checkoutFile)) =>
           /\ inv.cmd = "status" =>
                  /\ res'.err = NoErr
                  /\ res'.out = "No ticket currently checked out"
           /\ inv.cmd = "quick" =>
                  /\ res'.err = ErrPlain("no ticket checked out")
                  /\ res'.posted = <<>>
           /\ (inv.cmd = "checkout" /\ NonForced(inv)) =>
                  /\ ~IsConflict(res'.err)
                  /\ res'.err = Run(inv, NoFile, binContextFile).err
                  /\ res'.calls = Run(inv, NoFile, binContextFile).calls
           /\ (inv.cmd = "clear" /\ inv.env.remove = "ok") =>
                  /\ res'.err = NoErr
                  /\ checkoutFile' = NoFile]_vars

\* C24 witness: a non-forced bin checkout found a file it could not parse and
\* replaced it by the record of the ticket picked
C24_Witness ==
    /\ res.variant = "bin"
    /\ ~res.force
    /\ res.before = CorruptFile
    /\ res.err = NoErr
    /\ checkoutFile = RecordOf(TicketB, 0)

\* status was asked while the file could not be read
StatusOnUnreadableFile ==
    /\ res.cmd = "status"
    /\ res.before = UnreadableFile
    /\ res.out = "No ticket currently checked out"

\* clear removed a file that could not be parsed
ClearedCorruptFile ==
    /\ res.cmd = "clear"
    /\ res.before = CorruptFile
    /\ res.err = NoErr
    /\ checkoutFile = NoFile

\* C27: every checkout invocation that returns an error, whatever the cause,
\* a failed local write included, leaves the checkout record and the
\* BinContext exactly as they were; success is reported only when every write
\* of the variant was made.
C27_ErrorLeavesStateUntouched ==
    [][(pc = "called" /\ inv.cmd = "checkout") =>
           /\ res'.err # NoErr =>
                  /\ checkoutFile' = checkoutFile
                  /\ binContextFile' = binContextFile
           /\ (res'.err = NoErr /\ res'.out = "Checked out") =>
                  /\ checkoutFile'.kind = "json"
                  /\ BinScoped(inv) => binContextFile'.kind = "json"]_vars

\* the part of C27 the code does keep: success is reported only after every
\* write of the variant was made, and an error returned before the first
\* write leaves both files alone
C27_SuccessMeansWritten ==
    [][(pc = "called" /\ inv.cmd = "checkout") =>
           /\ (res'.err = NoErr /\ res'.out = "Checked out") =>
                  /\ checkoutFile' = RecordOf(TicketB, 0)
                  /\ BinScoped(inv) => binContextFile'.kind = "json"
           /\ (res'.err # NoErr /\ res'.err.msg # "write failed") =>
                  /\ checkoutFile' = checkoutFile
                  /\ binContextFile' = binContextFile]_vars

\* a bin checkout wrote the record, failed to write the BinContext and
\* returned the error: the record of the run that failed is on disk
RecordWrittenByFailedCheckout ==
    /\ res.variant = "bin"
    /\ res.err = ErrPlain("write failed")
    /\ res.before = NoFile
    /\ checkoutFile = RecordOf(TicketB, 0)
    /\ binContextFile = res.beforeCtx

----------------------------------------------------------------------------
(* internal/commands/list.go and formatter: the verbose ticket list and the *)
(* indicator of the checked-out ticket.  The output is a sequence of        *)
(* characters, "\n" the newline.                                            *)

\* strings.Contains
Contains(s, substr) ==
    \E i \in 1..(Len(s) + 1) :
        /\ i + Len(substr) - 1 <= Len(s)
        /\ SubSeq(s, i, i + Len(substr) - 1) = substr

\* strings.Split(s, "\n")
RECURSIVE Split(_)
Split(s) ==
    LET breaks == {i \in 1..Len(s) : s[i] = "\n"}
    IN IF breaks = {} THEN <<s>>
       ELSE LET i == CHOOSE b \in breaks : \A c \in breaks : b <= c
            IN <<SubSeq(s, 1, i - 1)>> \o Split(SubSeq(s, i + 1, Len(s)))

\* strings.Join(lines, "\n")
RECURSIVE Join(_)
Join(lines) ==
    IF Len(lines) = 0 THEN <<>>
    ELSE IF Len(lines) = 1 THEN lines[1]
    ELSE lines[1] \o <<"\n">> \o Join(Tail(lines))

\* fmt's %d for a count
RECURSIVE Itoa(_)
Itoa(n) ==
    IF n < 10 THEN <<DigitSeq[n + 1]>>
    ELSE Itoa(n \div 10) \o <<DigitSeq[(n % 10) + 1]>>

\* Ticket.Status
TicketStatus(t) ==
    IF t.BinName # EmptyString THEN t.BinName
    ELSE IF t.BinID # EmptyString THEN t.BinID
    ELSE <<"U", "n", "k", "n", "o", "w", "n">>

\* formatTicketHeader: "[%s] %s\n"
formatTicketHeader(t) == <<"[">> \o t.ID \o <<"]", " ">> \o t.Name \o <<"\n">>

\* formatTicketStatus: "  Status: %s\n"
formatTicketStatus(t) == <<" ", " ", "S", "t", "a", "t", "u", "s", ":", " ">> \o TicketStatus(t) \o <<"\n">>

\* formatTicketDescription, for a description that fits on one line: the
\* placeholder when it is blank
formatTicketDescription(t) ==
    LET description == TrimSpace(t.Description)
    IN IF description = EmptyString
       THEN <<" ", " ", "D", "e", "s", "c", "r", "i", "p", "t", "i", "o", "n", ":", " ">> \o <<"(", "n", "o", "n", "e", ")">> \o <<"\n">>
       ELSE <<" ", " ", "D", "e", "s", "c", "r", "i", "p", "t", "i", "o", "n", ":", " ">> \o description \o <<"\n">>

\* the loop of FormatTickets over tickets[i..]; the tickets carry no dates, so
\* formatTicketDates writes nothing
RECURSIVE FormatTicketsFrom(_, _)
FormatTicketsFrom(tickets, i) ==
    IF i > Len(tickets) THEN <<>>
    ELSE (IF i > 1 THEN <<"\n">> ELSE <<>>)
         \o formatTicketHeader(tickets[i]) \o formatTicketStatus(tickets[i])
         \o formatTicketDescription(tickets[i])
         \o FormatTicketsFrom(tickets, i + 1)

\* formatter.FormatTickets
FormatTickets(tickets) ==
    IF Len(tickets) = 0
    THEN <<"N", "o", " ", "t", "i", "c", "k", "e", "t", "s", " ", "a", "s", "s", "i", "g", "n", "e", "d", " ", "t", "o", " ", "y", "o", "u", ".">>
    ELSE <<"F", "o", "u", "n", "d", " ">> \o Itoa(Len(tickets)) \o <<" ", "t", "i", "c", "k", "e", "t", "(", "s", ")", " ", "a", "s", "s", "i", "g", "n", "e", "d", " ", "t", "o", " ", "y", "o", "u", ":">> \o <<"\n", "\n">>
         \o FormatTicketsFrom(tickets, 1)

\* the text appended to a line; "<-" stands for the one arrow character
Indicator == <<" ", "<-", " ">> \o <<"C", "H", "E", "C", "K", "E", "D", " ", "O", "U", "T">>

\* the loop over the lines: every line that contains the ticket ID is marked
MarkLines(lines, ticketID) ==
    [i \in 1..Len(lines) |->
        IF Contains(lines[i], ticketID) THEN lines[i] \o Indicator ELSE lines[i]]

\* formatTicketsWithCheckoutIndicator(tickets, verbose) with verbose set, run
\* on the checkout file cf
formatTicketsWithCheckoutIndicator(tickets, cf) ==
    LET loaded == LoadCheckout(cf)
        output == FormatTickets(tickets)
    IN IF loaded.err # "" THEN output
       ELSE Join(MarkLines(Split(output), loaded.checkout.TicketID))

\* tickets as the list shows them; their IDs and names are written character
\* by character
ListedTicket(id, name, description) ==
    [ID |-> id, Name |-> name, BinID |-> BinDo.ID, BinName |-> BinDo.Name,
     Description |-> description]

\* four assigned tickets: the ID of the second begins with the ID of the
\* first, the name of the third and the description of the fourth mention it
AssignedTickets ==
    {ListedTicket(<<"T", "1">>, <<"F", "i", "x">>, <<>>),
     ListedTicket(<<"T", "1", "0">>, <<"D", "o", "c">>, <<>>),
     ListedTicket(<<"T", "2">>, <<"S", "e", "e", " ", "T", "1">>, <<>>),
     ListedTicket(<<"T", "3">>, <<"L", "o", "g">>, <<"A", "f", "t", "e", "r", " ", "T", "1">>)}

\* what the search returns to the list command: some of the assigned tickets,
\* each once
ListedTickets ==
    {l \in UNION {[1..n -> AssignedTickets] : n \in 0..MaxTickets} :
        \A i, j \in 1..Len(l) : i # j => l[i] # l[j]}

\* fb -v with the tickets the search returns;  fb checkout <ticket-id>;  fb clear
ListInvocations ==
    {Invocation("list", <<>>, EmptyString, FALSE,
                Env(TRUE, TRUE, TRUE, SrvDown, TRUE, l, <<" ">>, 0, {})) : l \in ListedTickets}
    \cup {Invocation("checkout", <<t.ID>>, EmptyString, FALSE,
                     Env(TRUE, TRUE, TRUE, SrvDown, TRUE, <<t>>, <<" ">>, 0, {})) :
              t \in AssignedTickets}
    \cup {Invocation("clear", <<>>, EmptyString, FALSE, DefaultEnv)}

\* a command is typed
ListInvoke ==
    /\ pc = "idle"
    /\ inv' \in ListInvocations
    /\ pc' = "called"
    /\ res' = NoRes
    /\ UNCHANGED <<checkoutFile, binContextFile, fetchVars, auxVars>>

\* fb checkout or fb clear runs to its end
ListSetup ==
    /\ pc = "called"
    /\ inv.cmd # "list"
    /\ Return(Run(inv, checkoutFile, binContextFile))

\* displayTickets at the end of Execute, whose outcome is r: what was printed
\* is kept with the tickets listed and the checkout file read
ListReturn(r) ==
    /\ res' = [cmd |-> inv.cmd, variant |-> Variant(inv), force |-> inv.forceFlag,
               before |-> checkoutFile, beforeCtx |-> binContextFile,
               err |-> r.err, out |-> r.out, calls |-> r.calls, posted |-> r.posted]
    /\ listing' = IF r.err = NoErr
                  THEN [tickets |-> inv.env.search.tickets, file |-> checkoutFile,
                        output |-> formatTicketsWithCheckoutIndicator(
                                       inv.env.search.tickets, checkoutFile)]
                  ELSE <<>>
    /\ pc' = "idle"
    /\ inv' = NoInv
    /\ UNCHANGED <<checkoutFile, binContextFile, fetchVars, log, procs>>

\* fb -v runs to its end
ListVerbose ==
    /\ pc = "called"
    /\ inv.cmd = "list"
    /\ ListReturn(Execute(checkoutFile, binContextFile, inv.env, inv.binFlag))

NextList == ListInvoke \/ ListSetup \/ ListVerbose

SpecList == Init /\ [][NextList]_vars

----------------------------------------------------------------------------
(* Properties of the list *)

\* a list was printed
Listed == listing # <<>>

\* the line ends with the indicator
Marked(line) ==
    /\ Len(line) >= Len(Indicator)
    /\ SubSeq(line, Len(line) - Len(Indicator) + 1, Len(line)) = Indicator

\* the line without the indicator
Unmarked(line) ==
    IF Marked(line) THEN SubSeq(line, 1, Len(line) - Len(Indicator)) ELSE line

\* where the output of the i-th ticket starts: two lines of heading, then
\* three lines a ticket and a blank line between tickets
HeaderLineOf(i) == 3 + 4 * (i - 1)

\* the lines that belong to the listed tickets with this ID
LinesOfTicket(tickets, ticketID) ==
    {HeaderLineOf(i) : i \in {j \in 1..Len(tickets) : tickets[j].ID = ticketID}}

\* C26: in the ticket list the indicator is on the checked-out ticket and on
\* no other: with a record for ticket T exactly the header line of T is
\* marked, also when another ticket's ID or text contains T's ID, and with no
\* record nothing is marked.
C26_IndicatorOnlyOnCheckedOut ==
    Listed =>
        LET lines == Split(listing.output)
        IN IF RecordExists(listing.file)
           THEN \A k \in 1..Len(lines) :
                    Marked(lines[k]) <=> k \in LinesOfTicket(listing.tickets, listing.file.ticket_id)
           ELSE \A k \in 1..Len(lines) : ~Marked(lines[k])

\* what is marked instead: every line whose text contains the ID
C26_MarkedWhereIDOccurs ==
    Listed =>
        LET lines == Split(listing.output)
        IN /\ Join([k \in 1..Len(lines) |-> Unmarked(lines[k])]) = FormatTickets(listing.tickets)
           /\ \A k \in 1..Len(lines) :
                  Marked(lines[k]) <=>
                      /\ RecordExists(listing.file)
                      /\ Contains(Unmarked(lines[k]), listing.file.ticket_id)

\* with T1 checked out, the list of T1 and T10 marks both header lines
IndicatorOnOtherTicket ==
    /\ Listed
    /\ RecordExists(listing.file)
    /\ listing.file.ticket_id = <<"T", "1">>
    /\ Len(listing.tickets) = 2
    /\ listing.tickets[1].ID = <<"T", "1">>
    /\ listing.tickets[2].ID = <<"T", "1", "0">>
    /\ Marked(Split(listing.output)[HeaderLineOf(1)])
    /\ Marked(Split(listing.output)[HeaderLineOf(2)])

\* with no record, a list of two tickets carries no indicator
NoIndicatorWithoutRecord ==
    /\ Listed
    /\ listing.file = NoFile
    /\ Len(listing.tickets) = 2
    /\ \A k \in 1..Len(Split(listing.output)) : ~Marked(Split(listing.output)[k])

----------------------------------------------------------------------------
(* Two fb processes at the same time, for instance in two terminal tabs.    *)
(* Each runs ExecuteBinCheckout; the steps of the two interleave at the     *)
(* accesses to the two files, which nothing locks.                          *)

Procs == {1, 2}

\* fb checkout --bin name [--force] with one candidate, picked by typing 1
RaceInvocations ==
    {Invocation("checkout", <<>>, b, f, e) : b \in BinFlags, f \in BOOLEAN, e \in OneCandidateEnvs}

\* a process that has parsed its arguments; at is the next step of
\* ExecuteBinCheckout, savedAt and savedCtxAt tell the how-manieth write of
\* each file was this process's (0: none yet)
Started(i) ==
    [inv |-> i, at |-> "check", err |-> NoErr, out |-> "", sawRecord |-> FALSE,
     binID |-> EmptyString, checkout |-> NoCheckout, savedAt |-> 0, savedCtxAt |-> 0]

Running(p) == p \in DOMAIN procs /\ procs[p].at # "done"

Done(p) == p \in DOMAIN procs /\ procs[p].at = "done"

UpdateProc(p, rec) == [q \in DOMAIN procs |-> IF q = p THEN rec ELSE procs[q]]

Finish(p, err, out) == [procs[p] EXCEPT !.at = "done", !.err = err, !.out = out]

\* cli.Run in a second terminal: the process starts
StartProc(p) ==
    /\ p \notin DOMAIN procs
    /\ \E i \in RaceInvocations :
           procs' = [q \in DOMAIN procs \cup {p} |-> IF q = p THEN Started(i) ELSE procs[q]]
    /\ UNCHANGED <<stateVars, fetchVars, log, listing>>

\* the conflict check: LoadCheckout, skipped under force
CheckStep(p) ==
    /\ Running(p)
    /\ procs[p].at = "check"
    /\ LET existing == LoadCheckout(checkoutFile)
       IN procs' = UpdateProc(p,
              IF ~procs[p].inv.forceFlag /\ existing.err = ""
              THEN [Finish(p, ErrAlreadyCheckedOut(existing.checkout), "")
                       EXCEPT !.sawRecord = TRUE]
              ELSE [procs[p] EXCEPT !.at = "remote"])
    /\ UNCHANGED <<stateVars, fetchVars, log, listing>>

\* the config, the remote calls and the prompt: no file is read or written
RemoteStep(p) ==
    /\ Running(p)
    /\ procs[p].at = "remote"
    /\ LET env == procs[p].inv.env
           resolved == ResolveBinFilter(env.binSrv, procs[p].inv.binFlag)
           tickets == env.search.tickets
           input == TrimSpace(env.input)
           scan == Sscanf_d(input)
           selectedTicket == tickets[scan.value]
       IN procs' = UpdateProc(p,
              IF ~env.config THEN Finish(p, ErrPlain("config error"), "")
              ELSE IF ~env.discover THEN Finish(p, ErrPlain("failed to discover API endpoint"), "")
              ELSE IF ~env.user THEN Finish(p, ErrPlain("failed to get user information"), "")
              ELSE IF resolved.err # "" THEN Finish(p, ErrPlain(resolved.err), "")
              ELSE IF ~env.search.ok THEN Finish(p, ErrPlain("failed to search tickets"), "")
              ELSE IF Len(tickets) = 0 THEN Finish(p, NoErr, "No tickets found in bin")
              ELSE IF input = EmptyString THEN Finish(p, ErrPlain("cancelled"), "prompt")
              ELSE IF scan.err # "" \/ scan.value < 1 \/ scan.value > Len(tickets)
              THEN Finish(p, ErrPlain("invalid selection"), "prompt")
              ELSE [procs[p] EXCEPT
                       !.at = "save",
                       !.binID = resolved.id,
                       !.checkout = CheckoutState(selectedTicket.ID, selectedTicket.Name,
                                                  selectedTicket.BinID, selectedTicket.BinName,
                                                  FormatRFC3339(env.now))])
    /\ UNCHANGED <<stateVars, fetchVars, log, listing>>

\* state.SaveCheckout
SaveStep(p) ==
    /\ Running(p)
    /\ procs[p].at = "save"
    /\ LET saved == SaveCheckout(checkoutFile, procs[p].checkout, procs[p].inv.env.saveCheckout)
           nth == 1 + Cardinality({q \in DOMAIN procs : procs[q].savedAt # 0})
       IN /\ checkoutFile' = saved.file
          /\ procs' = UpdateProc(p,
                 IF saved.err # "" THEN Finish(p, ErrPlain(saved.err), "prompt")
                 ELSE [procs[p] EXCEPT !.at = "savectx", !.savedAt = nth])
    /\ UNCHANGED <<binContextFile, pc, inv, res, fetchVars, log, listing>>

\* state.SaveBinContext and the return
SaveCtxStep(p) ==
    /\ Running(p)
    /\ procs[p].at = "savectx"
    /\ LET savedCtx == SaveBinContext(binContextFile, procs[p].binID, procs[p].inv.binFlag,
                                      procs[p].inv.env.saveBinCtx)
           nth == 1 + Cardinality({q \in DOMAIN procs : procs[q].savedCtxAt # 0})
       IN /\ binContextFile' = savedCtx.file
          /\ procs' = UpdateProc(p,
                 IF savedCtx.err # "" THEN Finish(p, ErrPlain(savedCtx.err), "prompt")
                 ELSE [Finish(p, NoErr, "Checked out") EXCEPT !.savedCtxAt = nth])
    /\ UNCHANGED <<checkoutFile, pc, inv, res, fetchVars, log, listing>>

NextRace ==
    \E p \in Procs :
        StartProc(p) \/ CheckStep(p) \/ RemoteStep(p) \/ SaveStep(p) \/ SaveCtxStep(p)

SpecRace == Init /\ [][NextRace]_vars

----------------------------------------------------------------------------
(* Properties of two processes *)

\* the process reported success: it printed "Checked out" and returned nil
Succeeded(p) == Done(p) /\ procs[p].err = NoErr /\ procs[p].out = "Checked out"

\* the process passed the conflict check without --force: it found no record
PassedCheck(p) ==
    /\ p \in DOMAIN procs
    /\ ~procs[p].inv.forceFlag
    /\ procs[p].at # "check"
    /\ ~procs[p].sawRecord

\* the process whose write of checkout.json came last
LastSaver(p) ==
    /\ procs[p].savedAt # 0
    /\ \A q \in DOMAIN procs : procs[q].savedAt <= procs[p].savedAt

\* the process whose write of bin_context.json came last
LastCtxSaver(p) ==
    /\ procs[p].savedCtxAt # 0
    /\ \A q \in DOMAIN procs : procs[q].savedCtxAt <= procs[p].savedCtxAt

\* what the process would have returned had it run alone from Empty
AloneFromEmpty(p) ==
    ExecuteBinCheckout(NoFile, NoFile, procs[p].inv.env, procs[p].inv.binFlag, FALSE)

\* C22: two non-forced checkouts that both found no record both return what
\* they would have returned alone from Empty, success where the remote
\* answers, whatever the other wrote in between: neither looks at the file
\* again, so neither notices that a record was lost; the record that remains
\* is the one written last.
C22_LastWriterWins ==
    (\A p \in Procs : PassedCheck(p) /\ Done(p)) =>
        /\ \A p \in Procs :
               /\ procs[p].err = AloneFromEmpty(p).err
               /\ procs[p].out = AloneFromEmpty(p).out
               /\ AloneFromEmpty(p).err = NoErr => Succeeded(p)
        /\ \A p \in Procs : LastSaver(p) => checkoutFile = MarshalCheckout(procs[p].checkout)

\* C22 witness: both non-forced checkouts started from Empty reported
\* success; process 1 saved first, its ticket T1 is gone from the file, which
\* holds T2 of process 2
C22_Witness ==
    /\ \A p \in Procs : PassedCheck(p) /\ Succeeded(p)
    /\ procs[1].checkout.TicketID = TicketA.ID
    /\ procs[2].checkout.TicketID = TicketB.ID
    /\ procs[1].savedAt = 1
    /\ procs[2].savedAt = 2
    /\ checkoutFile.ticket_id = TicketB.ID

\* C30: after two concurrent bin checkouts that both succeeded, the
\* BinContext on disk was written by the invocation that wrote the checkout
\* record on disk.
C30_FilesFromSameInvocation ==
    (\A p \in Procs : Succeeded(p)) =>
        \A p \in Procs : LastSaver(p) <=> LastCtxSaver(p)

\* process 1 wrote the record last and process 2 the bin context: the record
\* is of a ticket from the bin "Do", the context names the bin "I P"
FilesFromDifferentInvocations ==
    /\ \A p \in Procs : Succeeded(p)
    /\ LastSaver(1)
    /\ LastCtxSaver(2)
    /\ procs[1].inv.binFlag = BinDo.Name
    /\ procs[2].inv.binFlag = BinIP.Name
    /\ checkoutFile.ticket_id = procs[1].checkout.TicketID
    /\ binContextFile.bin_name = BinIP.Name

============================================================================
